---- MODULE Spec2Model ----
(***************************************************************************)
(* Model of the eduid-IdP session / login-state core:                      *)
(*   - ExpiringCache (cache.py): data map + age queue, purge on add        *)
(*   - SSOSessionCacheMem / SSOSessionCacheMDB (cache.py)                  *)
(*   - SSOLoginDataCache (loginstate.py), SSO and do_verify (login.py),    *)
(*     IdPApplication._lookup_sso_session (idp.py)                         *)
(*   - SLO (logout.py)                                                     *)
(* The specifications of the module:                                       *)
(*   SpecCache    one ExpiringCache driven by add/get/delete/purge_expired *)
(*   SpecLock     the same with a lock that another worker may hold        *)
(*   SpecWorkers  worker threads inside add and purge_expired, by statement*)
(*   SpecSess     the two session stores run side by side                  *)
(*   SpecSso      the sso endpoint over sessions of successful logins      *)
(*   SpecVerify   the verify endpoint over tickets and failed logins       *)
(*   SpecTicket   get_ticket and store_ticket over arbitrary requests      *)
(*   SpecForms    the sso and verify endpoints over forms a client built   *)
(*   SpecSubmit   worker threads inside do_verify, by statement            *)
(*   SpecResponse perform_login over tickets, sessions and identities      *)
(*   SpecLogout   the slo endpoints over the sessions of earlier logins    *)
(*   SpecSignOut  logouts followed by authentication requests and a login  *)
(***************************************************************************)
EXTENDS Integers, Sequences, FiniteSets, TLC

VARIABLES
    cache,      \* SpecCache: the ExpiringCache instance [data, ages]
    ttl,        \* SpecCache: its _ttl
    hist,       \* SpecCache, history: the adds made so far while they were
                \* the only mutations and their timestamps strictly increased;
                \* SpecSess, history: last is the time of the last sweep that
                \* expire_old_sessions performed
    clock,      \* all but SpecCache: the current time (time.time())
    ret,        \* the last call and what it returned
    mem,        \* SSOSessionCacheMem.lid2data, an ExpiringCache
    mdb,        \* SpecSess: SSOSessionCacheMDB's sso_sessions collection
    lastExpireAt, \* SpecSess: SSOSessionCacheMDB._last_expire_at
    nextSid,    \* the next session id uuid4 hands out
    issued,     \* SpecSess, history: what add_session was called with, per id
    tickets,    \* SpecSso, SpecVerify: IDP.ticket, the login-state ExpiringCache
    verifySigs, \* SpecSso, SpecVerify: config.verify_request_signatures
    fails       \* SpecVerify, history: per ticket key, the FailCount the last
                \* failed submission saw and whether the ticket left the
                \* store since

cacheVars == <<cache, ttl, hist>>
sessVars == <<mem, mdb, lastExpireAt, nextSid, issued>>
loginVars == <<tickets, verifySigs, fails>>
vars == <<cacheVars, sessVars, loginVars, clock, ret>>

(***************************************************************************)
(* Bounds                                                                  *)
(***************************************************************************)
MaxTime == 3        \* largest timestamp / clock value of SpecCache
MaxTtl == 2         \* the _ttl of the cache of SpecCache
MaxAges == 3        \* longest age queue an add may extend
MaxClock == 3       \* SpecSess: the clock stops here
MaxSid == 2         \* SpecSess: session ids handed out
SessTtl == 2        \* SpecSess: the session stores' ttl
ExpirationFreq == 2 \* SpecSess: SSOSessionCacheMDB's expiration_freq

Keys == {"k1", "k2"}
Infos == {[v |-> "a"], [v |-> "b"]}
Times == 0..MaxTime

\* Python's None
None == <<>>

(***************************************************************************)
(* ExpiringCache                                                           *)
(***************************************************************************)
\* ExpiringCache.__init__: empty _data and _ages
EmptyCache == [data |-> <<>>, ages |-> <<>>]

\* NoOpLock.acquire: always succeeds
NoOpLockAcquire == TRUE

\* (mutant) self._data[key]: a missing key raises KeyError
CacheGetRaises(c, key) ==
    IF key \in DOMAIN c.data THEN c.data[key] ELSE [error |-> "KeyError"]

\* ExpiringCache.get: self._data.get(key)
CacheGet(c, key) == IF key \in DOMAIN c.data THEN c.data[key] ELSE None

\* (mutant) delete empties the whole data map
CacheDeleteAll(c, key) == [c EXCEPT !.data = <<>>]

\* ExpiringCache.delete: del self._data[key]; a missing key is a logged no-op.
\* _ages is left alone.
CacheDelete(c, key) ==
    [c EXCEPT !.data = [k \in (DOMAIN c.data) \ {key} |-> c.data[k]]]

\* What ExpiringCache.delete returns: True if the key was there, else None
CacheDeleteResult(c, key) == IF key \in DOMAIN c.data THEN TRUE ELSE None

\* bool() of that result: True is true, None is false
CacheDeleteOk(c, key) == key \in DOMAIN c.data

\* (mutant) the loop pops the expired age records but never calls delete
RECURSIVE PurgeLoopKeepsData(_, _)
PurgeLoopKeepsData(c, timestamp) ==
    IF c.ages = <<>> THEN c
    ELSE LET e == Head(c.ages) IN
         IF e.ts > timestamp THEN c
         ELSE PurgeLoopKeepsData([c EXCEPT !.ages = Tail(c.ages)], timestamp)

\* The while-loop of purge_expired: pop from the left while _exp_ts <= timestamp,
\* deleting the popped key from _data; stop (re-inserting) at the first newer one.
RECURSIVE PurgeLoop(_, _)
PurgeLoop(c, timestamp) ==
    IF c.ages = <<>> THEN c
    ELSE LET e == Head(c.ages) IN
         IF e.ts > timestamp THEN c
         ELSE PurgeLoop(CacheDelete([c EXCEPT !.ages = Tail(c.ages)], e.key),
                        timestamp)

\* (mutant) purge_expired purges whether or not it got the lock
PurgeExpiredIgnoresLock(c, timestamp, acquired) == PurgeLoop(c, timestamp)

\* ExpiringCache.purge_expired: skipped entirely when the lock is not acquired
PurgeExpired(c, timestamp, acquired) ==
    IF ~acquired THEN c ELSE PurgeLoop(c, timestamp)

\* ExpiringCache.add up to the purge: self._data[key] = info and
\* self._ages.append((_now, key))
CacheStore(c, key, info, now) ==
    [data |-> [k \in (DOMAIN c.data) \cup {key} |->
                  IF k = key THEN info ELSE c.data[k]],
     ages |-> Append(c.ages, [ts |-> now, key |-> key])]

\* ExpiringCache.add: store, then purge_expired(_now - self._ttl)
CacheAdd(c, key, info, now, t, acquired) ==
    PurgeExpired(CacheStore(c, key, info, now), now - t, acquired)

\* The place in the age queue of the newest record of key: the record appended
\* by the add that stored the entry now in _data (0 when the queue has none)
NewestIdx(c, key) ==
    LET idx == {i \in 1..Len(c.ages) : c.ages[i].key = key} IN
    IF idx = {} THEN 0 ELSE CHOOSE i \in idx : \A j \in idx : j <= i

\* The timestamp of that record (-1 when the queue has none)
InsertedAt(c, key) ==
    IF NewestIdx(c, key) = 0 THEN -1 ELSE c.ages[NewestIdx(c, key)].ts

\* A purge pass with threshold timestamp took the cache from before to after:
\* no entry was removed while an entry inserted before it, and still valid
\* (stamped after the threshold), was kept
OldestFirst(before, after, timestamp) ==
    \A k \in (DOMAIN before.data) \ (DOMAIN after.data) :
        \A j \in DOMAIN after.data :
            ~ /\ NewestIdx(before, j) < NewestIdx(before, k)
              /\ InsertedAt(before, j) > timestamp

(***************************************************************************)
(* SSOSessionCache: the in-memory and the MongoDB session store            *)
(***************************************************************************)
Users == {"u1", "u2"}
Payloads == {[authn |-> "p1"], [authn |-> "p2"]}
Sids == 1..MaxSid

\* SSOSessionCache._create_session_id: str(uuid.uuid4()), an id never handed
\* out before
CreateSessionId(next) == next

\* SSOSessionCacheMem.add_session: lid2data.add(_sid, {'username', 'data'})
MemAddSession(m, sid, username, data, now, t, acquired) ==
    CacheAdd(m, sid, [username |-> username, data |-> data], now, t, acquired)

\* (mutant) get_session returns the stored record instead of its 'data'
MemGetSessionWhole(m, sid) == CacheGet(m, sid)

\* SSOSessionCacheMem.get_session: this = lid2data.get(sid); this['data'] if this
MemGetSession(m, sid) ==
    LET this == CacheGet(m, sid) IN
    IF this # None THEN this.data ELSE None

\* SSOSessionCacheMem.remove_session: lid2data.delete(sid)
MemRemoveSession(m, sid) == CacheDelete(m, sid)

\* SSOSessionCacheMDB._last_expire_at is None until the first sweep; in
\* Python 2 None compares less than every number
NeverExpired == [isNone |-> TRUE, at |-> 0]
LastGreater(last, x) == ~last.isNone /\ last.at > x

\* mutant: the sweep is performed whenever it is asked for
MdbExpireOldSessionsAlways(db, last, now, t, freq, force) ==
    [db |-> {d \in db : ~(d.created_ts < now - t)},
     last |-> [isNone |-> FALSE, at |-> now - t],
     performed |-> TRUE]

\* mutant: the sweep also removes the sessions created at the threshold
MdbExpireOldSessionsInclusive(db, last, now, t, freq, force) ==
    LET _ts == now - t IN
    IF ~force /\ LastGreater(last, _ts - freq)
    THEN [db |-> db, last |-> last, performed |-> FALSE]
    ELSE [db |-> {d \in db : ~(d.created_ts <= _ts)},
          last |-> [isNone |-> FALSE, at |-> _ts],
          performed |-> TRUE]

\* SSOSessionCacheMDB.expire_old_sessions: [db, last, performed]
MdbExpireOldSessions(db, last, now, t, freq, force) ==
    LET _ts == now - t IN
    IF ~force /\ LastGreater(last, _ts - freq)
    THEN [db |-> db, last |-> last, performed |-> FALSE]
    ELSE [db |-> {d \in db : ~(d.created_ts < _ts)},
          last |-> [isNone |-> FALSE, at |-> _ts],
          performed |-> TRUE]

\* SSOSessionCacheMDB.add_session: insert the document, expire_old_sessions()
MdbAddSession(db, last, sid, username, data, now, t, freq) ==
    MdbExpireOldSessions(
        db \cup {[session_id |-> sid, username |-> username, data |-> data,
                  created_ts |-> now]},
        last, now, t, freq, FALSE)

\* SSOSessionCacheMDB.get_session: find_one({'session_id': sid}); res['data']
MdbGetSession(db, sid) ==
    IF \E d \in db : d.session_id = sid
    THEN (CHOOSE d \in db : d.session_id = sid).data
    ELSE None

\* SSOSessionCacheMDB.remove_session: remove({'session_id': lid})
MdbRemoveSession(db, sid) == {d \in db : d.session_id # sid}

\* What pymongo's remove(..., w=1) returns: the getLastError document, with
\* the number of documents removed
MdbRemoveResult(db, sid) ==
    [n |-> Cardinality({d \in db : d.session_id = sid}), ok |-> 1]

\* bool(remove_session(sid)) as the callers test it: True or None from the
\* in-memory store, the getLastError document (a non-empty dict) from MongoDB
MemRemoveOk(m, sid) == sid \in DOMAIN m.data
MdbRemoveOk(db, sid) == DOMAIN MdbRemoveResult(db, sid) # {}

SessVarsInit ==
    /\ mem = EmptyCache
    /\ mdb = {}
    /\ lastExpireAt = NeverExpired
    /\ nextSid = 1
    /\ issued = <<>>

(***************************************************************************)
(* The login-state store (IDP.ticket) and the SSO session lookup           *)
(***************************************************************************)
\* seconds in a minute: the factor of the two ttl computations
SecondsPerMinute == 60
\* config.sso_session_lifetime, in minutes
SsoSessionLifetime == 1
\* config.login_state_ttl, in minutes
LoginStateTtl == 1
\* the seconds that pass between two observations of time.time()
TickSeconds == 60
\* the clock stops after this many ticks
MaxTicks == 2
\* failed submissions stop at this FailCount
MaxFail == 2
\* successful logins stop after this many
MaxLogins == 1

\* _session_ttl and _login_state_ttl, in seconds
SessionTtl == SsoSessionLifetime * SecondsPerMinute
TicketTtl == (LoginStateTtl + 1) * SecondsPerMinute

\* SAMLRequest values a client sends; "junk" does not decode
RawRequests == {"reqA", "reqB", "junk"}

\* IDP.parse_authn_request: the AuthnRequest a raw SAMLRequest decodes to, or
\* None (an UnravelError is reported as the same BadRequest)
ParseAuthnRequest(raw) ==
    CASE raw = "reqA" -> [id |-> "idA", issuer |-> "sp1", force_authn |-> FALSE]
      [] raw = "reqB" -> [id |-> "idB", issuer |-> "sp1", force_authn |-> TRUE]
      [] OTHER -> None

\* ExpiringCache.key: sha1(something).hexdigest()
Sha1(something) == <<"sha1", something>>

\* a key a client made up, and what cgi.escape(quote=True) makes of it
ForgedKey == <<"str", "<k>">>
Escape(s) == IF s = ForgedKey THEN <<"str", "&lt;k&gt;">> ELSE s

\* the key parameters clients send, and the keys tickets are stored under
ClientKeys == {Sha1(r) : r \in RawRequests \ {"junk"}}
StoredKeys == {Escape(k) : k \in ClientKeys}

\* binding=None
NoBinding == "None"
Bindings == {"HTTP-Redirect", "HTTP-POST"}

\* IDP.metadata.certs(issuer, "any", "signing"): the signing certificates the
\* metadata holds for an issuer, in metadata order
Certs(issuer) == IF issuer = "sp1" THEN <<"c1", "c2">> ELSE <<>>

\* verify_redirect_signature(info, cert): a signature names the certificate
\* whose key made it
VerifyRedirectSignature(info, cert) == info.Signature = cert

\* mutant: only the first signing certificate is tried
VerifiedOkFirstOnly(info, _certs) ==
    Len(_certs) > 0 /\ VerifyRedirectSignature(info, _certs[1])

\* the loop over _certs that sets verified_ok
VerifiedOk(info, _certs) ==
    \E i \in 1..Len(_certs) : VerifyRedirectSignature(info, _certs[i])

\* mutant: a request that pysaml2 could not decode is not refused
ParseSAMLRequestUnchecked(info, binding, verify) ==
    [err |-> "", req_info |-> [id |-> "", issuer |-> "", force_authn |-> FALSE]]

\* SSOLoginDataCache._parse_SAMLRequest
ParseSAMLRequest(info, binding, verify) ==
    LET _req_info == ParseAuthnRequest(info.SAMLRequest)
    IN  IF _req_info = None
        THEN [err |-> "BadRequest"]
        ELSE IF /\ {"SigAlg", "Signature"} \subseteq DOMAIN info
                /\ verify
                /\ ~VerifiedOk(info, Certs(_req_info.issuer))
             THEN [err |-> "BadRequest"]
             ELSE [err |-> "", req_info |-> _req_info]

\* SSOLoginData.__init__
SSOLoginData(key, req_info, data, binding) ==
    [key |-> key,
     req_info |-> req_info,
     SAMLRequest |-> data.SAMLRequest,
     RelayState |-> IF "RelayState" \in DOMAIN data THEN data.RelayState ELSE "",
     FailCount |-> IF "FailCount" \in DOMAIN data THEN data.FailCount ELSE 0,
     binding |-> binding]

\* SSOLoginDataCache.create_ticket (get_ticket always passes the key)
CreateTicket(data, binding, key, verify) ==
    IF binding = NoBinding
    THEN [err |-> "ServiceError"]
    ELSE LET p == ParseSAMLRequest(data, binding, verify)
         IN  IF p.err # ""
             THEN [err |-> p.err]
             ELSE [err |-> "", ticket |-> SSOLoginData(key, p.req_info, data, binding)]

\* mutant: the stored FailCount wraps around
StoreTicketWraps(tc, ticket, now) ==
    CacheAdd(tc, Escape(ticket.key), [ticket EXCEPT !.FailCount = @ % MaxFail],
             now, TicketTtl, TRUE)

\* SSOLoginDataCache.store_ticket: add under the escaped key; the cache has a
\* threading.Lock that a single request always acquires
StoreTicket(tc, ticket, now) ==
    CacheAdd(tc, Escape(ticket.key), ticket, now, TicketTtl, TRUE)

\* SSOLoginDataCache.get_ticket: the ticket and the cache afterwards, or the
\* error raised
GetTicket(tc, info, binding, now, verify) ==
    IF DOMAIN info = {}
    THEN [err |-> "BadRequest", cache |-> tc]
    ELSE IF "key" \notin DOMAIN info /\ "SAMLRequest" \notin DOMAIN info
    THEN [err |-> "BadRequest", cache |-> tc]
    ELSE
    LET _key == IF "key" \in DOMAIN info THEN info.key ELSE Sha1(info.SAMLRequest)
        _ticket == CacheGet(tc, _key)
    IN  IF _ticket # None
        THEN [err |-> "", cache |-> tc, ticket |-> _ticket, created |-> FALSE]
        ELSE IF "key" \in DOMAIN info /\ "SAMLRequest" \notin DOMAIN info
        THEN [err |-> "ServiceError", cache |-> tc]
        ELSE
        LET b == IF binding = NoBinding /\ "binding" \in DOMAIN info
                 THEN info.binding ELSE binding
            c == CreateTicket(info, b, _key, verify)
        IN  IF c.err # ""
            THEN [err |-> c.err, cache |-> tc]
            ELSE [err |-> "", cache |-> StoreTicket(tc, c.ticket, now),
                  ticket |-> c.ticket, created |-> TRUE]

\* the key get_ticket looks up, None when the info has neither key nor
\* SAMLRequest
LookupKey(info) ==
    IF "key" \in DOMAIN info THEN info.key
    ELSE IF "SAMLRequest" \in DOMAIN info THEN Sha1(info.SAMLRequest)
    ELSE None

\* no idpauthn cookie and no id parameter
NoSid == 0

\* mischttp.set_cookie and read_cookie: the cookie value is the base64 of the
\* session id
SetCookie(sid) == <<"b64", sid>>
ReadCookie(kaka) == IF kaka = NoSid THEN NoSid ELSE kaka[2]

\* SSOSession(user_id, authn_ref, authn_class_ref, authn_request_id), stamped
\* with the time of its construction
SSOSession(user_id, authn_ref, authn_request_id, now) ==
    [user_id |-> user_id,
     user_authn_ref |-> authn_ref,
     user_authn_request_id |-> authn_request_id,
     authn_timestamp |-> now]

\* SSOSession.to_dict and sso_session.from_dict
SsoSessionToDict(s) ==
    [user_id |-> s.user_id,
     authn_ref |-> s.user_authn_ref,
     authn_request_id |-> s.user_authn_request_id,
     authn_timestamp |-> s.authn_timestamp]
SsoSessionFromDict(d) ==
    [user_id |-> d.user_id,
     user_authn_ref |-> d.authn_ref,
     user_authn_request_id |-> d.authn_request_id,
     authn_timestamp |-> d.authn_timestamp]

\* SSOSession.minutes_old: the age in whole minutes
MinutesOld(s, now) == (now - s.authn_timestamp) \div SecondsPerMinute

\* mutant: a session that is missing from the store is rebuilt from what was
\* handed out for the cookie
LookupSsoSession2Stale(m, sref) ==
    IF sref = NoSid THEN None
    ELSE IF sref \in DOMAIN issued THEN SsoSessionFromDict(issued[sref].data)
    ELSE LET _data == MemGetSession(m, sref)
         IN  IF _data = None THEN None ELSE SsoSessionFromDict(_data)

\* IdPApplication._lookup_sso_session2; sref is the idpauthn cookie or, without
\* a cookie, the id parameter of the query string
LookupSsoSession2(m, sref) ==
    IF sref = NoSid
    THEN None
    ELSE LET _data == MemGetSession(m, sref)
         IN  IF _data = None THEN None ELSE SsoSessionFromDict(_data)

\* mutant: the age of the session is not checked
LookupSsoSessionAnyAge(m, sref, userKnown, now) ==
    LET session == LookupSsoSession2(m, sref)
    IN  IF session = None THEN None
        ELSE IF ~userKnown THEN None
        ELSE session

\* IdPApplication._lookup_sso_session; userKnown: userdb.lookup_user finds the
\* session's user
LookupSsoSession(m, sref, userKnown, now) ==
    LET session == LookupSsoSession2(m, sref)
    IN  IF session = None THEN None
        ELSE IF ~userKnown THEN None
        ELSE IF MinutesOld(session, now) > SsoSessionLifetime THEN None
        ELSE session

\* mutant: ForceAuthn alone decides
ShouldForceAuthnAlways(ticket, session) == ticket.req_info.force_authn

\* (mutant) ForceAuthn is honoured again for the request the session was
\* made for
ShouldForceAuthnSameRequest(ticket, session) ==
    /\ ticket.req_info.force_authn
    /\ (session = None \/ ticket.req_info.id = session.user_authn_request_id)

\* SSO._should_force_authn
ShouldForceAuthn(ticket, session) ==
    IF ticket.req_info.force_authn
    THEN IF session = None
         THEN TRUE
         ELSE IF ticket.req_info.id # session.user_authn_request_id
              THEN TRUE
              ELSE FALSE
    ELSE FALSE

\* mutant: a session is enough for the fast path
RedirectOrPostIgnoresForce(ticket, session) ==
    IF session # None THEN "perform_login" ELSE "not_authn"

\* SSO._redirect_or_post: which of perform_login and _not_authn it returns
RedirectOrPost(ticket, session) ==
    LET _force_authn == ShouldForceAuthn(ticket, session)
    IN  IF session # None /\ ~_force_authn
        THEN "perform_login"
        ELSE "not_authn"

\* history of failed submissions per stored key: prev is the FailCount the
\* last one saw (-1 before the first), gone whether the key has been out of
\* the store since
NoFails == [k \in StoredKeys |-> [prev |-> -1, gone |-> FALSE]]
FailsAfter(f, tc) ==
    [k \in StoredKeys |->
        IF f[k].prev < 0 THEN f[k]
        ELSE [f[k] EXCEPT !.gone = @ \/ k \notin DOMAIN tc.data]]

LoginVarsInit ==
    /\ tickets = EmptyCache
    /\ verifySigs = FALSE
    /\ fails = NoFails

(***************************************************************************)
(* SpecCache: one ExpiringCache with the default no-op lock                *)
(***************************************************************************)
NoHist == [mono |-> FALSE, added |-> {}, last |-> -1]

InitCache ==
    /\ cache = EmptyCache
    /\ ttl = MaxTtl
    /\ hist = [mono |-> TRUE, added |-> {}, last |-> -1]
    /\ clock = 0
    /\ ret = [op |-> "init"]
    /\ SessVarsInit
    /\ LoginVarsInit

\* add(key, info, now): now is the injected timestamp, or what int(time.time())
\* returned when none was injected
Add(key, info, now) ==
    /\ Len(cache.ages) < MaxAges
    /\ cache' = CacheAdd(cache, key, info, now, ttl, NoOpLockAcquire)
    /\ ret' = [op |-> "add", key |-> key, info |-> info, now |-> now,
               inOrder |-> OldestFirst(CacheStore(cache, key, info, now),
                                       cache', now - ttl)]
    /\ hist' = IF hist.mono /\ now > hist.last
               THEN [mono |-> TRUE, added |-> hist.added \cup {<<key, now>>},
                     last |-> now]
               ELSE NoHist
    /\ UNCHANGED <<ttl, clock, sessVars, loginVars>>

\* get(key), called at time now; expired records whether the entry read was
\* stamped more than ttl before now
Get(key, now) ==
    /\ ret' = [op |-> "get", key |-> key, val |-> CacheGet(cache, key),
               expired |-> /\ key \in DOMAIN cache.data
                           /\ now - InsertedAt(cache, key) > ttl]
    /\ UNCHANGED <<cacheVars, clock, sessVars, loginVars>>

\* delete(key)
Delete(key) ==
    /\ cache' = CacheDelete(cache, key)
    /\ ret' = [op |-> "delete", key |-> key, val |-> CacheDeleteResult(cache, key),
               ok |-> CacheDeleteOk(cache, key),
               before |-> cache,
               again |-> ret.op = "delete" /\ ret.key = key /\ ret.ok]
    /\ hist' = NoHist
    /\ UNCHANGED <<ttl, clock, sessVars, loginVars>>

\* purge_expired(timestamp), called directly
Purge(timestamp) ==
    /\ cache' = PurgeExpired(cache, timestamp, NoOpLockAcquire)
    /\ ret' = [op |-> "purge", ts |-> timestamp,
               inOrder |-> OldestFirst(cache, cache', timestamp)]
    /\ hist' = NoHist
    /\ UNCHANGED <<ttl, clock, sessVars, loginVars>>

NextCache ==
    \/ \E key \in Keys, info \in Infos, now \in Times : Add(key, info, now)
    \/ \E key \in Keys, now \in Times : Get(key, now)
    \/ \E key \in Keys : Delete(key)
    \/ \E timestamp \in Times : Purge(timestamp)

SpecCache == InitCache /\ [][NextCache]_vars

(***************************************************************************)
(* SpecLock: the same cache built with a real lock that another worker may *)
(* hold when add runs (lock.acquire(False) then returns False)             *)
(***************************************************************************)
\* add(key, info, now) while another worker holds the lock
AddLocked(key, info, now) ==
    /\ Len(cache.ages) < MaxAges
    /\ cache' = CacheAdd(cache, key, info, now, ttl, FALSE)
    /\ ret' = [op |-> "add_locked", key |-> key, info |-> info, now |-> now]
    /\ hist' = NoHist
    /\ UNCHANGED <<ttl, clock, sessVars, loginVars>>

NextLock ==
    \/ \E key \in Keys, info \in Infos, now \in Times : Add(key, info, now)
    \/ \E key \in Keys, info \in Infos, now \in Times : AddLocked(key, info, now)
    \/ \E key \in Keys, now \in Times : Get(key, now)

SpecLock == InitCache /\ [][NextLock]_vars

(***************************************************************************)
(* Claims on SpecCache                                                     *)
(***************************************************************************)
\* C1 as stated: while adds are the only mutations and their timestamps
\* strictly increase, a get made after the add at time t + ttl + 1 returns
\* absent for every key that was added at time t.
C1_AbsentAfterTtl ==
    (/\ ret.op = "get"
     /\ hist.mono
     /\ <<ret.key, hist.last - ttl - 1>> \in hist.added)
    => ret.val = None

\* The adds of key in the history
AddedAt(key) == {t \in Times : <<key, t>> \in hist.added}

\* C1 amended: the same, for every key whose latest add was at time t (the key
\* was not added again after t, so the add at t + ttl + 1 is of another key).
C1_AbsentAfterTtlUnlessReadded ==
    (/\ ret.op = "get"
     /\ hist.mono
     /\ hist.last - ttl - 1 \in AddedAt(ret.key)
     /\ \A t \in AddedAt(ret.key) : t <= hist.last - ttl - 1)
    => ret.val = None

\* C1 witness: such a get was made, and the add at t + ttl + 1 is still cached
C1_Witness ==
    /\ ret.op = "get"
    /\ hist.mono
    /\ hist.last - ttl - 1 \in AddedAt(ret.key)
    /\ \A t \in AddedAt(ret.key) : t <= hist.last - ttl - 1
    /\ ret.val = None
    /\ DOMAIN cache.data # {}

\* C2: every purge pass (of an add or of a direct purge_expired) removes entries
\* oldest-inserted-first: it removes no entry while it keeps a still-valid entry
\* that was inserted before it.
C2_OldestFirst ==
    ret.op \in {"add", "purge"} => ret.inOrder

\* C3: after add(key, info) has returned, get(key) returns info (ttl > 0).
C3_AddVisible ==
    (ret.op = "add" /\ ttl > 0) => CacheGet(cache, ret.key) = ret.info

\* C4 as stated: get returns absent for a key with no entry and also for a key
\* whose entry is older than ttl and not yet purged.
C4_AbsentWhenExpired ==
    (ret.op = "get" /\ (ret.key \notin DOMAIN cache.data \/ ret.expired))
    => ret.val = None

\* C4 amended: get returns absent exactly for a key that has no entry in the
\* data map; for an entry older than ttl that no purge has removed yet it
\* returns the stored value; it never returns an error.
C4_AbsentIffNotStored ==
    ret.op = "get" =>
        /\ (ret.val = None) <=> (ret.key \notin DOMAIN cache.data)
        /\ ret.key \in DOMAIN cache.data => ret.val = cache.data[ret.key]
        /\ ret.val \in Infos \cup {None}

\* C4 witness: a get of an entry older than ttl that is still in the data map
C4_Witness ==
    /\ ret.op = "get"
    /\ ret.expired
    /\ ret.val \in Infos

\* C24: delete(key) returns a true value exactly when an entry existed, leaves
\* get(key) absent and every other key's entry as it was; a delete of a key
\* that has no entry (a second delete) changes nothing and returns a false
\* value instead of raising.
C24_DeleteContract ==
    ret.op = "delete" =>
        /\ ret.ok <=> (ret.key \in DOMAIN ret.before.data)
        /\ CacheGet(cache, ret.key) = None
        /\ \A k \in Keys \ {ret.key} : CacheGet(cache, k) = CacheGet(ret.before, k)
        /\ ret.key \notin DOMAIN ret.before.data =>
              /\ cache = ret.before
              /\ ~ret.ok
              /\ ret.val = None

\* C24 witness: a cached key was deleted, then deleted again, while another
\* key is cached
C24_Witness ==
    /\ ret.op = "delete"
    /\ ret.again
    /\ ~ret.ok
    /\ DOMAIN cache.data # {}

\* C25: an add made while another worker holds the lock stores the new entry,
\* which is then retrievable, and removes no entry at all.
C25_LockedAddSkipsPurge ==
    [][ret'.op = "add_locked" =>
         /\ CacheGet(cache', ret'.key) = ret'.info
         /\ \A k \in DOMAIN cache.data : k \in DOMAIN cache'.data
         /\ \A k \in (DOMAIN cache.data) \ {ret'.key} : cache'.data[k] = cache.data[k]
         /\ cache'.ages = Append(cache.ages, [ts |-> ret'.now, key |-> ret'.key])]_vars

\* C25 witness: a locked add left in the cache an entry that its purge pass
\* would have removed
C25_Witness ==
    /\ ret.op = "add_locked"
    /\ Head(cache.ages).ts <= ret.now - ttl
    /\ Head(cache.ages).key \in DOMAIN cache.data
    /\ Head(cache.ages).key # ret.key

\* C29: the purge pass run by add at time now removes an entry only if
\* now - insertedAt > ttl; an entry of age exactly ttl stays.
C29_PurgeOnlyOlderThanTtl ==
    [][ret'.op = "add" =>
         \A k \in DOMAIN cache.data :
            (k # ret'.key /\ ret'.now - InsertedAt(cache, k) <= ttl)
            => k \in DOMAIN cache'.data]_vars

\* C30: no purge (of an add at time now, or purge_expired(now - ttl) called
\* directly) removes a key until more than ttl has passed since the latest add
\* of that key.
C30_KeptUntilTtlAfterLatestAdd ==
    [][/\ ret'.op = "add" =>
            \A k \in (DOMAIN cache.data) \cup {ret'.key} :
               ret'.now - InsertedAt(CacheStore(cache, ret'.key, ret'.info, ret'.now), k) <= ttl
               => k \in DOMAIN cache'.data
       /\ ret'.op = "purge" =>
            \A k \in DOMAIN cache.data :
               (InsertedAt(cache, k) >= 0 /\ ret'.ts - InsertedAt(cache, k) <= 0)
               => k \in DOMAIN cache'.data]_vars

(***************************************************************************)
(* SpecSess: SSOSessionCacheMem and SSOSessionCacheMDB, fed the same calls *)
(* and the same generated ids                                              *)
(***************************************************************************)
InitSess ==
    /\ SessVarsInit
    /\ clock = 0
    /\ ret = [op |-> "init"]
    /\ cache = EmptyCache
    /\ ttl = MaxTtl
    /\ hist = NoHist
    /\ LoginVarsInit

\* threading.Lock().acquire(False) with no other worker holding the lock
LockFree == TRUE

\* add_session(username, data) on both stores
AddSession(username, data) ==
    LET _sid == CreateSessionId(nextSid)
        r == MdbAddSession(mdb, lastExpireAt, _sid, username, data, clock,
                           SessTtl, ExpirationFreq)
    IN
    /\ nextSid <= MaxSid
    /\ mem' = MemAddSession(mem, _sid, username, data, clock, SessTtl, LockFree)
    /\ mdb' = r.db
    /\ lastExpireAt' = r.last
    /\ nextSid' = nextSid + 1
    /\ issued' = [s \in (DOMAIN issued) \cup {_sid} |->
                    IF s = _sid
                    THEN [username |-> username, data |-> data, at |-> clock,
                          removed |-> FALSE]
                    ELSE issued[s]]
    /\ ret' = [op |-> "add_session", sid |-> _sid,
               sweep |-> [force |-> FALSE, at |-> clock,
                          performed |-> r.performed,
                          prev |-> hist.last,
                          removed |-> (mdb \cup {d \in r.db : d.session_id = _sid})
                                         \ r.db]]
    /\ hist' = IF r.performed THEN [hist EXCEPT !.last = clock] ELSE hist
    /\ UNCHANGED <<cache, ttl, loginVars, clock>>

\* get_session(sid) on both stores
GetSession(sid) ==
    /\ ret' = [op |-> "get_session", sid |-> sid,
               mem |-> MemGetSession(mem, sid),
               mdb |-> MdbGetSession(mdb, sid)]
    /\ UNCHANGED <<cacheVars, sessVars, loginVars, clock>>

\* remove_session(sid) on both stores
RemoveSession(sid) ==
    /\ mem' = MemRemoveSession(mem, sid)
    /\ mdb' = MdbRemoveSession(mdb, sid)
    /\ issued' = [s \in DOMAIN issued |->
                    IF s = sid THEN [issued[s] EXCEPT !.removed = TRUE]
                    ELSE issued[s]]
    /\ ret' = [op |-> "remove_session", sid |-> sid,
               mem |-> CacheDeleteResult(mem, sid),
               mdb |-> MdbRemoveResult(mdb, sid),
               memOk |-> MemRemoveOk(mem, sid),
               mdbOk |-> MdbRemoveOk(mdb, sid),
               existed |-> sid \in DOMAIN issued /\ ~issued[sid].removed]
    /\ UNCHANGED <<cacheVars, loginVars, lastExpireAt, nextSid, clock>>

\* expire_old_sessions(force) on the MongoDB store
ExpireOldSessions(force) ==
    LET r == MdbExpireOldSessions(mdb, lastExpireAt, clock, SessTtl,
                                  ExpirationFreq, force)
    IN
    /\ mdb' = r.db
    /\ lastExpireAt' = r.last
    /\ ret' = [op |-> "expire_old_sessions", force |-> force,
               performed |-> r.performed, at |-> clock,
               sweep |-> [force |-> force, at |-> clock,
                          performed |-> r.performed,
                          prev |-> hist.last,
                          removed |-> mdb \ r.db]]
    /\ hist' = IF r.performed THEN [hist EXCEPT !.last = clock] ELSE hist
    /\ UNCHANGED <<cache, ttl, loginVars, mem, nextSid, issued, clock>>

\* time passes
TickSess ==
    /\ clock < MaxClock
    /\ clock' = clock + 1
    /\ ret' = [op |-> "tick"]
    /\ UNCHANGED <<cacheVars, sessVars, loginVars>>

NextSess ==
    \/ \E username \in Users, data \in Payloads : AddSession(username, data)
    \/ \E sid \in Sids : GetSession(sid)
    \/ \E sid \in Sids : RemoveSession(sid)
    \/ \E force \in BOOLEAN : ExpireOldSessions(force)
    \/ TickSess

SpecSess == InitSess /\ [][NextSess]_vars

(***************************************************************************)
(* Claims on SpecSess                                                      *)
(***************************************************************************)
\* A session that add_session returned, that remove_session was not called
\* for, and that is younger than the stores' ttl
Live(sid) ==
    /\ sid \in DOMAIN issued
    /\ ~issued[sid].removed
    /\ clock - issued[sid].at < SessTtl

Swept == "sweep" \in DOMAIN ret

\* The call came less than expiration_freq seconds after the previous
\* performed sweep
TooSoon == ret.sweep.prev >= 0 /\ ret.sweep.at - ret.sweep.prev < ExpirationFreq

\* C21: a call of expire_old_sessions without force made less than
\* expiration_freq seconds after the previous performed sweep deletes nothing
\* and returns False, so that two performed sweeps are at least
\* expiration_freq apart; the first call and every call with force=True
\* perform the sweep.
C21_SweepRateLimited ==
    Swept =>
        /\ (~ret.sweep.force /\ TooSoon)
              => (~ret.sweep.performed /\ ret.sweep.removed = {})
        /\ (~ret.sweep.force /\ ret.sweep.performed /\ ret.sweep.prev >= 0)
              => ret.sweep.at - ret.sweep.prev >= ExpirationFreq
        /\ (ret.sweep.force \/ ret.sweep.prev < 0) => ret.sweep.performed

\* C21 witness: a call without force was skipped although a session of the
\* store was older than the ttl
C21_Witness ==
    /\ Swept
    /\ ~ret.sweep.force /\ TooSoon
    /\ ~ret.sweep.performed
    /\ \E d \in mdb : d.created_ts < ret.sweep.at - SessTtl

\* No session that was added has reached the stores' ttl
NoneAtTtl == \A sid \in DOMAIN issued : clock - issued[sid].at < SessTtl

\* C23: the in-memory and the durable store satisfy the same contract: while
\* no session reaches its ttl, get_session returns the same payload or absent
\* in both, and remove_session reports success in both exactly when the
\* session existed.
C23_SameContract ==
    NoneAtTtl =>
        /\ ret.op = "get_session" => ret.mem = ret.mdb
        /\ ret.op = "remove_session" =>
              /\ ret.memOk <=> ret.existed
              /\ ret.mdbOk <=> ret.existed

\* A sweep was performed; the sessions it found are those it removed and
\* those still in the store
PerformedSweep == Swept /\ ret.sweep.performed
SweepThreshold == ret.sweep.at - SessTtl

\* C22 as stated: a performed sweep at time now removes every session
\* created at or before the threshold now - ttl and none created after it.
C22_SweepRemovesUpToThreshold ==
    PerformedSweep =>
        /\ \A d \in mdb : d.created_ts > SweepThreshold
        /\ \A d \in ret.sweep.removed : d.created_ts <= SweepThreshold

\* C22 amended: a performed sweep removes every session created before the
\* threshold and none created at or after it.
C22_SweepRemovesBeforeThreshold ==
    PerformedSweep =>
        /\ \A d \in mdb : d.created_ts >= SweepThreshold
        /\ \A d \in ret.sweep.removed : d.created_ts < SweepThreshold

\* C22 witness: a performed sweep removed a session and kept the one created
\* at the threshold
C22_Witness ==
    /\ PerformedSweep
    /\ ret.sweep.removed # {}
    /\ \E d \in mdb : d.created_ts = SweepThreshold

(***************************************************************************)
(* The sso and verify endpoints over the ticket cache and the in-memory    *)
(* session store.  SpecSso follows sessions through authentication         *)
(* requests (every credential check succeeds); SpecVerify follows tickets  *)
(* through failed and successful credential checks (no request bears a     *)
(* session reference).                                                     *)
(***************************************************************************)
\* get_authn_context(AUTHN_BROKER, authn_ref) finds a context
AuthnContextKnown(authn_ref) == authn_ref = "ref"

\* authn.get_authn_user found no user
NoUser == ""

InitLogin ==
    /\ SessVarsInit
    /\ tickets = EmptyCache
    /\ verifySigs \in BOOLEAN
    /\ fails = NoFails
    /\ clock = 0
    /\ ret = [op |-> "init"]
    /\ cache = EmptyCache
    /\ ttl = MaxTtl
    /\ hist = NoHist

\* IdPApplication.sso: look the session up, then SSO.redirect or SSO.post with
\* that session as its sso_session
SsoRequest(sref, info, binding, userKnown) ==
    LET session == LookupSsoSession(mem, sref, userKnown, clock)
        t == GetTicket(tickets, info, binding, clock, verifySigs)
    IN
    /\ tickets' = t.cache
    /\ fails' = FailsAfter(fails, t.cache)
    /\ ret' = IF t.err # ""
              THEN [op |-> "sso", err |-> t.err,
                    info |-> info,
                    binding |-> binding,
                    hit |-> LookupKey(info) \in DOMAIN tickets.data,
                    stored |-> t.cache # tickets]
              ELSE [op |-> "sso", err |-> "",
                    sref |-> sref,
                    info |-> info,
                    binding |-> binding,
                    hit |-> LookupKey(info) \in DOMAIN tickets.data,
                    stored |-> t.cache # tickets,
                    ticket |-> t.ticket,
                    created |-> t.created,
                    storedAt |-> InsertedAt(tickets, Escape(t.ticket.key)),
                    session |-> session,
                    force |-> ShouldForceAuthn(t.ticket, session),
                    route |-> RedirectOrPost(t.ticket, session)]
    /\ UNCHANGED <<cacheVars, sessVars, verifySigs, clock>>

\* IdPApplication.verify and do_verify
Verify(query, user, referer) ==
    LET t == GetTicket(tickets, query, NoBinding, clock, verifySigs)
    IN
    IF t.err # ""
    THEN /\ tickets' = t.cache
         /\ fails' = FailsAfter(fails, t.cache)
         /\ ret' = [op |-> "verify", outcome |-> t.err, err |-> t.err,
                    info |-> query,
                    binding |-> NoBinding,
                    hit |-> LookupKey(query) \in DOMAIN tickets.data,
                    stored |-> t.cache # tickets]
         /\ UNCHANGED <<cacheVars, sessVars, verifySigs, clock>>
    ELSE IF ~AuthnContextKnown(query.authn_reference)
    THEN /\ tickets' = t.cache
         /\ fails' = FailsAfter(fails, t.cache)
         /\ ret' = [op |-> "verify", outcome |-> "Unauthorized", err |-> "",
                    info |-> query,
                    binding |-> NoBinding,
                    hit |-> LookupKey(query) \in DOMAIN tickets.data,
                    stored |-> t.cache # tickets,
                    message |-> "Bad authentication reference"]
         /\ UNCHANGED <<cacheVars, sessVars, verifySigs, clock>>
    ELSE IF user = NoUser
    THEN LET _ticket == [t.ticket EXCEPT !.FailCount = @ + 1]
             k == Escape(_ticket.key)
             after == StoreTicket(t.cache, _ticket, clock)
         IN
         /\ t.ticket.FailCount < MaxFail
         /\ tickets' = after
         /\ fails' = [FailsAfter(fails, after) EXCEPT
                         ![k] = [prev |-> t.ticket.FailCount,
                                 gone |-> k \notin DOMAIN after.data]]
         /\ ret' = [op |-> "verify", err |-> "",
                    info |-> query,
                    binding |-> NoBinding,
                    hit |-> LookupKey(query) \in DOMAIN tickets.data,
                    stored |-> t.cache # tickets,
                    outcome |-> IF referer # "" THEN "Redirect" ELSE "Unauthorized",
                    message |-> IF referer # "" THEN "" ELSE "Login incorrect",
                    location |-> referer,
                    key |-> k,
                    seen |-> t.ticket.FailCount,
                    ticket |-> _ticket,
                    prevSeen |-> fails[k].prev,
                    wasGone |-> fails[k].gone,
                    storedAt |-> InsertedAt(t.cache, k),
                    sessions |-> mem]
         /\ UNCHANGED <<cacheVars, sessVars, verifySigs, clock>>
    ELSE LET _sso_session == SSOSession(user, query.authn_reference,
                                        t.ticket.req_info.id, clock)
             _session_id == CreateSessionId(nextSid)
         IN
         /\ nextSid <= MaxLogins + Cardinality(DOMAIN issued)
         /\ tickets' = t.cache
         /\ fails' = FailsAfter(fails, t.cache)
         /\ mem' = MemAddSession(mem, _session_id, user,
                                 SsoSessionToDict(_sso_session), clock, SessionTtl, TRUE)
         /\ nextSid' = nextSid + 1
         /\ ret' = [op |-> "verify", err |-> "",
                    info |-> query,
                    binding |-> NoBinding,
                    hit |-> LookupKey(query) \in DOMAIN tickets.data,
                    stored |-> t.cache # tickets,
                    outcome |-> IF "key" \in DOMAIN query THEN "Redirect" ELSE "KeyError",
                    message |-> "",
                    cookie |-> SetCookie(_session_id),
                    location |-> IF "key" \in DOMAIN query
                                 THEN <<query.redirect_uri, "?key=", query.key>>
                                 ELSE <<>>,
                    sid |-> _session_id,
                    user |-> user,
                    ticket |-> t.ticket,
                    sessions |-> mem]
         /\ UNCHANGED <<cacheVars, mdb, lastExpireAt, issued, verifySigs, clock>>

\* time passes
TickLogin ==
    /\ clock < MaxTicks * TickSeconds
    /\ clock' = clock + TickSeconds
    /\ ret' = [op |-> "tick"]
    /\ UNCHANGED <<cacheVars, sessVars, loginVars>>

\* the form posted to /verify, without its password
VerifyQuery(info) ==
    [f \in DOMAIN info \cup {"authn_reference", "redirect_uri"} |->
        IF f = "authn_reference" THEN "ref"
        ELSE IF f = "redirect_uri" THEN "/sso/redirect"
        ELSE info[f]]

\* SpecSso: query parameters of the requests to /sso/redirect, with and
\* without a session cookie; signatures are not verified
SsoInfos ==
    {[SAMLRequest |-> r] : r \in RawRequests}
    \cup {[key |-> k] : k \in ClientKeys}

NextSso ==
    \/ \E sref \in NoSid..MaxLogins, info \in SsoInfos :
          \E userKnown \in (IF sref = NoSid THEN {TRUE} ELSE BOOLEAN) :
              SsoRequest(sref, info, "HTTP-Redirect", userKnown)
    \/ \E k \in ClientKeys : Verify(VerifyQuery([key |-> k]), "u1", "")
    \/ TickLogin

InitSso == InitLogin /\ ~verifySigs

SpecSso == InitSso /\ [][NextSso]_vars

\* SpecTicket: requests to /sso/redirect and /sso/post without a session
\* cookie, unsigned, signed by the issuer's second certificate, signed by an
\* unknown key, with a Signature but no SigAlg, and with a key beside the
\* SAMLRequest; forms posted to /verify with an undecodable SAMLRequest;
\* signature verification is configured or not
TicketInfos ==
    {<<>>}
    \cup {[SAMLRequest |-> r] : r \in RawRequests}
    \cup {[SAMLRequest |-> "reqA", SigAlg |-> "rsa-sha1", Signature |-> sig] :
             sig \in {"c2", "bad"}}
    \cup {[SAMLRequest |-> "reqB", Signature |-> "bad"]}
    \cup {[key |-> Sha1("reqA")],
          [key |-> Sha1("reqB"), SAMLRequest |-> "reqA"]}

TicketPosts ==
    {[query |-> VerifyQuery([SAMLRequest |-> "junk"]), user |-> "u1"],
     [query |-> VerifyQuery([SAMLRequest |-> "junk", binding |-> "HTTP-POST"]),
      user |-> "u1"]}

NextTicket ==
    \/ \E info \in TicketInfos, binding \in Bindings :
          SsoRequest(NoSid, info, binding, TRUE)
    \/ \E post \in TicketPosts : Verify(post.query, post.user, "")
    \/ TickLogin

SpecTicket == InitLogin /\ [][NextTicket]_vars

\* SpecForms: requests to /sso/redirect and /sso/post, and forms posted to
\* /verify with correct credentials by a client that sets the fields itself:
\* the fields of the login page, another redirect_uri, a SAMLRequest beside
\* the key; signatures are not verified
FormInfos ==
    {[SAMLRequest |-> "reqA"], [key |-> Sha1("reqA")],
     [key |-> Sha1("reqB"), SAMLRequest |-> "reqA"]}

FormPosts ==
    {VerifyQuery([key |-> Sha1("reqA")]),
     [VerifyQuery([key |-> Sha1("reqA")]) EXCEPT !.redirect_uri = "http://elsewhere/"],
     VerifyQuery([key |-> Sha1("reqB"), SAMLRequest |-> "reqA",
                  binding |-> "HTTP-Redirect"])}

NextForms ==
    \/ \E info \in FormInfos, binding \in Bindings :
          SsoRequest(NoSid, info, binding, TRUE)
    \/ \E query \in FormPosts : Verify(query, "u1", "")
    \/ TickLogin

SpecForms == InitSso /\ [][NextForms]_vars

\* SpecVerify: the forms posted to /verify and what authn.get_authn_user makes
\* of their credentials; signatures are not verified
VerifyPosts ==
    {[query |-> VerifyQuery([key |-> Sha1("reqA")]), user |-> u] : u \in {NoUser, "u1"}}
    \cup {[query |-> [VerifyQuery([key |-> Sha1("reqA")]) EXCEPT !.authn_reference = "bad"],
           user |-> "u1"],
          [query |-> VerifyQuery([SAMLRequest |-> "reqA"]), user |-> NoUser],
          [query |-> VerifyQuery([SAMLRequest |-> "reqA"]), user |-> "u1"],
          [query |-> VerifyQuery([SAMLRequest |-> "reqA", binding |-> "HTTP-POST"]),
           user |-> NoUser]}

InitVerify == InitLogin /\ ~verifySigs

NextVerify ==
    \/ \E info \in {[SAMLRequest |-> r] : r \in RawRequests \ {"junk"}} :
          SsoRequest(NoSid, info, "HTTP-Redirect", TRUE)
    \/ \E post \in VerifyPosts, referer \in {"", "/sso/redirect"} :
          Verify(post.query, post.user, referer)
    \/ TickLogin

SpecVerify == InitVerify /\ [][NextVerify]_vars

(***************************************************************************)
(* Claims on SpecSso                                                       *)
(***************************************************************************)
\* An authentication request that got its ticket and was routed
Routed == ret.op = "sso" /\ ret.err = ""

\* The record the session store returns for a session reference, and its age
\* in minutes
StoreRecord(sref) == IF sref = NoSid THEN None ELSE MemGetSession(mem, sref)
AgeMinutes(d) == (clock - d.authn_timestamp) \div SecondsPerMinute

\* C6: a session record older than the configured session lifetime is not a
\* valid session even while the store still returns it: _lookup_sso_session
\* yields no session and the request does not go to perform_login.
C6_ExpiredNotValid ==
    (/\ Routed
     /\ StoreRecord(ret.sref) # None
     /\ AgeMinutes(StoreRecord(ret.sref)) > SsoSessionLifetime)
    => /\ ret.session = None
       /\ ret.route # "perform_login"

\* C6 witness: a request bore the cookie of such a record and went to the
\* login prompt
C6_Witness ==
    /\ Routed
    /\ StoreRecord(ret.sref) # None
    /\ AgeMinutes(StoreRecord(ret.sref)) > SsoSessionLifetime
    /\ ret.session = None
    /\ ret.route = "not_authn"

C8_FastPathIff ==
    Routed =>
        /\ ret.route \in {"perform_login", "not_authn"}
        /\ ret.route = "perform_login" <=> (ret.session # None /\ ~ret.force)
        /\ (ret.session # None /\ ret.route = "not_authn") => ret.force
        /\ ret.route = "perform_login" =>
              /\ StoreRecord(ret.sref) # None
              /\ AgeMinutes(StoreRecord(ret.sref)) <= SsoSessionLifetime

\* C8 witness: a request bearing a valid session went to the login prompt
\* because of ForceAuthn
C8_Witness ==
    /\ Routed
    /\ ret.session # None
    /\ ret.force
    /\ ret.route = "not_authn"

(***************************************************************************)
(* Claims on SpecVerify                                                    *)
(***************************************************************************)
\* A submission whose credential check failed
FailedSubmission == ret.op = "verify" /\ "seen" \in DOMAIN ret

\* C9, for tickets stored less than the ttl ago: a failed credential check
\* increases the FailCount of the ticket by one, leaves the ticket in the
\* login-state store with that count, creates no session and answers with a
\* redirect to the Referer, or Unauthorized without one (so n failures in a
\* row leave a stored FailCount of n).
C9_FailedSubmission ==
    (FailedSubmission /\ clock - ret.storedAt < TicketTtl) =>
        /\ ret.ticket.FailCount = ret.seen + 1
        /\ CacheGet(tickets, ret.key) = ret.ticket
        /\ mem = ret.sessions
        /\ ret.outcome = IF ret.location # "" THEN "Redirect" ELSE "Unauthorized"

\* C12: a lookup of a raw SAMLRequest without a key, made less than the ttl
\* after the ticket of that request was last stored, derives the same key,
\* returns the stored ticket and creates no second ticket or store entry.
C12_SameTicket ==
    (/\ ret.op = "sso" /\ ret.err = ""
     /\ "key" \notin DOMAIN ret.info
     /\ ret.storedAt >= 0
     /\ clock - ret.storedAt < TicketTtl)
    => /\ Escape(ret.ticket.key) = Sha1(ret.info.SAMLRequest)
       /\ ~ret.created
       /\ CacheGet(tickets, Sha1(ret.info.SAMLRequest)) = ret.ticket

\* C13: get_ticket with an explicit key that is not in the store fails with
\* the state-not-found error (ServiceError), whatever else the info holds,
\* and stores nothing.
C13_MissingKeyFails ==
    (/\ ret.op \in {"sso", "verify"}
     /\ "key" \in DOMAIN ret.info /\ ~ret.hit)
    => (ret.err = "ServiceError" /\ ~ret.stored)

\* A get_ticket call (of an SSO endpoint or of do_verify) whose info has no
\* key and a raw request that cannot be decoded
UndecodableLookup ==
    /\ ret.op \in {"sso", "verify"}
    /\ "key" \notin DOMAIN ret.info
    /\ "SAMLRequest" \in DOMAIN ret.info
    /\ ParseAuthnRequest(ret.info.SAMLRequest) = None

\* The binding get_ticket creates a ticket with: the caller's, else the
\* info's
BindingKnown == ret.binding # NoBinding \/ "binding" \in DOMAIN ret.info

\* C14 as stated: get_ticket with no explicit key and an undecodable raw
\* request fails with BadRequest, not with the error of a missing explicit
\* key (ServiceError), and leaves the store unchanged.
C14_UndecodableIsBadRequest ==
    UndecodableLookup => (ret.err = "BadRequest" /\ ~ret.stored)

\* C14 amended: the same when get_ticket has a binding (the caller's or the
\* info's); without any binding the failure is the ServiceError of
\* create_ticket. The store is unchanged either way.
C14_UndecodableIsBadRequestWithBinding ==
    UndecodableLookup =>
        /\ ret.err = (IF BindingKnown THEN "BadRequest" ELSE "ServiceError")
        /\ ~ret.stored

\* C14 witness: a form posted to /verify with its binding and an undecodable
\* request was refused with BadRequest while the store held a ticket
C14_Witness ==
    /\ UndecodableLookup
    /\ ret.op = "verify"
    /\ BindingKnown
    /\ ret.err = "BadRequest"
    /\ ~ret.stored
    /\ DOMAIN tickets.data # {}

\* A get_ticket call that missed and handed a decodable raw request to
\* _parse_SAMLRequest
ParsedDecodable ==
    /\ ret.op \in {"sso", "verify"}
    /\ "SAMLRequest" \in DOMAIN ret.info
    /\ ParseAuthnRequest(ret.info.SAMLRequest) # None
    /\ ~ret.hit
    /\ BindingKnown

\* The request carries both SigAlg and Signature
Signed == {"SigAlg", "Signature"} \subseteq DOMAIN ret.info

\* No signing certificate of the request's issuer verifies its signature
NoCertVerifies ==
    LET _certs == Certs(ParseAuthnRequest(ret.info.SAMLRequest).issuer)
    IN  \A i \in 1..Len(_certs) : ret.info.Signature # _certs[i]

SuccessfulSubmission == ret.op = "verify" /\ "sid" \in DOMAIN ret

\* C11: a successful credential check adds exactly one session, bound to the
\* user and to the id of the ticket's request, and answers with a redirect
\* whose continuation is ?key= the ticket key.
C11_SuccessfulSubmission ==
    SuccessfulSubmission =>
        /\ (DOMAIN mem.data) \ (DOMAIN ret.sessions.data) = {ret.sid}
        /\ CacheGet(mem, ret.sid).username = ret.user
        /\ MemGetSession(mem, ret.sid).user_id = ret.user
        /\ MemGetSession(mem, ret.sid).authn_request_id = ret.ticket.req_info.id
        /\ ret.outcome = "Redirect"
        /\ ret.location = <<"/sso/redirect", "?key=", Escape(ret.ticket.key)>>

\* C10 as stated: a failed submission never sees a smaller FailCount than the
\* failed submission before it for the same key.
C10_NeverDecreases ==
    FailedSubmission => ret.seen >= ret.prevSeen

\* C10 amended: the same, as long as the ticket stayed in the store between
\* the two submissions.
C10_NeverDecreasesWhileStored ==
    (FailedSubmission /\ ret.prevSeen >= 0 /\ ~ret.wasGone)
    => ret.seen >= ret.prevSeen

\* C10 witness: a second failed submission, at a later time, for a ticket
\* that stayed in the store
C10_Witness ==
    /\ FailedSubmission
    /\ ret.prevSeen >= 0
    /\ ~ret.wasGone
    /\ ret.seen > ret.prevSeen
    /\ clock > ret.storedAt

(***************************************************************************)
(* Single Log Out                                                          *)
(***************************************************************************)
\* sessions the store holds when the logout requests arrive
MaxSessions == 2

BindingSoap == "SOAP"
SloBindings == Bindings \cup {BindingSoap}

\* saml2.samlp.STATUS_SUCCESS, STATUS_RESPONDER, STATUS_PARTIAL_LOGOUT and
\* STATUS_UNKNOWN_PRINCIPAL
StatusSuccess == "Success"
StatusResponder == "Responder"
StatusPartialLogout == "PartialLogout"
StatusUnknownPrincipal == "UnknownPrincipal"
StatusCodes ==
    {StatusSuccess, StatusResponder, StatusPartialLogout, StatusUnknownPrincipal}

\* req_info.message.name_id of a request without a name identifier
NoNameId == ""

\* IDP.parse_logout_request(request, binding): the NameID of a raw logout
\* request, None for one that does not parse
LogoutRequests == {"lo1", "lo2", "loX", "lo0", "junk"}
ParseLogoutRequest(request) ==
    CASE request = "lo1" -> [name_id |-> "n1", sender |-> "sp1"]
      [] request = "lo2" -> [name_id |-> "n2", sender |-> "sp1"]
      [] request = "loX" -> [name_id |-> "nX", sender |-> "sp1"]
      [] request = "lo0" -> [name_id |-> NoNameId, sender |-> "sp1"]
      [] OTHER -> None

\* IDP.ident.find_local_id(name_id): the local user of a NameID, None
\* (NoUser) for a NameID the identity database does not know
FindLocalId(name_id) ==
    CASE name_id = "n1" -> "u1"
      [] name_id = "n2" -> "u2"
      [] OTHER -> NoUser

\* IDP.cache.get_sessions_for_user(username): the ids of the sessions the
\* store holds for the user
GetSessionsForUser(m, username) ==
    {sid \in DOMAIN m.data : m.data[sid].username = username}

\* the orders a list of the ids in S can have
Orders(S) ==
    {q \in [1..Cardinality(S) -> S] : \A i, j \in 1..Cardinality(S) :
                                         i # j => q[i] # q[j]}

\* mutant: a session that was found is counted as removed but stays
LogoutOneKeeps(acc, this) ==
    IF MemGetSession(acc.cache, this) = None
    THEN [cache |-> acc.cache, fail |-> acc.fail + 1]
    ELSE acc

\* mutant: an id that is not in the store is not counted as a failure
LogoutOneMissingOk(acc, this) ==
    IF MemGetSession(acc.cache, this) = None
    THEN acc
    ELSE [cache |-> MemRemoveSession(acc.cache, this), fail |-> acc.fail]

\* one round of the loop of _logout_session_ids: acc is the store and the
\* fail count so far; res is what remove_session returns, True when the id
\* was in the store and None when not
LogoutOne(acc, this) ==
    LET _data == MemGetSession(acc.cache, this)
    IN  IF _data = None
        THEN [cache |-> acc.cache, fail |-> acc.fail + 1]
        ELSE LET res == this \in DOMAIN acc.cache.data
             IN  [cache |-> MemRemoveSession(acc.cache, this),
                  fail |-> IF ~res THEN acc.fail + 1 ELSE acc.fail]

RECURSIVE LogoutLoop(_, _)
LogoutLoop(acc, session_ids) ==
    IF session_ids = <<>> THEN acc
    ELSE LogoutLoop(LogoutOne(acc, Head(session_ids)), Tail(session_ids))

\* mutant: any failure gives Responder
LogoutSessionIdsAllOrNothing(m, session_ids) ==
    LET r == LogoutLoop([cache |-> m, fail |-> 0], session_ids)
    IN  [cache |-> r.cache,
         status |-> IF r.fail # 0 THEN StatusResponder ELSE StatusSuccess]

\* SLO._logout_session_ids: the store afterwards and the status code
LogoutSessionIds(m, session_ids) ==
    LET r == LogoutLoop([cache |-> m, fail |-> 0], session_ids)
    IN  [cache |-> r.cache,
         status |-> IF r.fail # 0
                    THEN IF r.fail = Len(session_ids)
                         THEN StatusResponder
                         ELSE StatusPartialLogout
                    ELSE StatusSuccess]

\* mutant: a request without NameID is not told apart
LogoutNameIdUnchecked(name_id, known) ==
    IF ~known THEN [err |-> "ServiceError"]
    ELSE [err |-> "", status |-> StatusSuccess]

\* SLO._logout_name_id: known is whether IDP.session_db holds authn
\* statements for the NameID (remove_authn_statements raises KeyError if not)
LogoutNameId(name_id, known) ==
    IF name_id = NoNameId THEN [err |-> "", status |-> StatusUnknownPrincipal]
    ELSE IF ~known THEN [err |-> "ServiceError"]
    ELSE [err |-> "", status |-> StatusSuccess]

\* cherrypy.request.cookie: the cookies a request carries, the idpauthn
\* cookie as set_cookie encodes a session id
NoCookies == <<>>
CookieJars ==
    {NoCookies, [lang |-> "sv"]}
    \cup {[idpauthn |-> SetCookie(sid)] : sid \in 1..MaxSessions}

\* mischttp.read_cookie on the request's cookies: the decoded value of the
\* idpauthn cookie, None (NoSid) without one
ReadCookies(kaka) ==
    IF "idpauthn" \in DOMAIN kaka THEN kaka.idpauthn[2] ELSE NoSid

\* the header that expires a cookie: an empty value, expires at the epoch
ExpiredCookie(name) == <<"Set-Cookie", name, "", "expires", "dawn">>

\* mischttp.delete_cookie(name, logger): the header that expires the cookie,
\* returned to the caller, or None for a request that carries no cookie
DeleteCookie(name, kaka) ==
    IF DOMAIN kaka # {} THEN ExpiredCookie(name) ELSE None

\* SLO._logout_response: picked is the binding IDP.pick_binding finds for the
\* sender's single_logout_service. The call of delete_cookie passes the
\* config as a third argument that the function does not take; the model
\* follows the function's body, whose return value the call drops. The debug
\* message for a response binding other than the request's has a malformed
\* format string, so that its format() raises ValueError.
LogoutResponse(req_info, status_code, picked, kaka) ==
    LET bindings == IF req_info.binding # BindingSoap
                    THEN <<picked>> ELSE <<BindingSoap>>
        ht_args == [headers |-> {}, data |-> <<status_code, bindings[1]>>]
        dropped == DeleteCookie("idpauthn", kaka)
    IN  IF req_info.binding # bindings[1]
        THEN [outcome |-> "ValueError"]
        ELSE [outcome |-> "Response",
              binding |-> bindings[1],
              status |-> status_code,
              headers |-> ht_args.headers,
              dropped |-> dropped]

\* mutant: a cookie resolves to every session of the store
ResolveSessionIdsEveryone(m, _session_id, _username) ==
    IF _session_id # NoSid THEN DOMAIN m.data
    ELSE GetSessionsForUser(m, _username)

\* perform_logout, lines 110-123: the set of session ids the request resolves
ResolveSessionIds(m, _session_id, _username) ==
    IF _session_id # NoSid THEN {_session_id}
    ELSE GetSessionsForUser(m, _username)

(***************************************************************************)
(* SpecLogout: logout requests to /slo/redirect, /slo/post and /slo/soap   *)
(* against a store that holds the sessions of MaxSessions logins           *)
(***************************************************************************)
\* the session do_verify stores for a user
LoginData(user) == SsoSessionToDict(SSOSession(user, "ref", "idA", 0))

\* the store after the logins of us[1], ..., us[n], ids handed out in order
RECURSIVE LoggedIn(_, _)
LoggedIn(us, n) ==
    IF n = 0 THEN EmptyCache
    ELSE MemAddSession(LoggedIn(us, n - 1), CreateSessionId(n), us[n],
                       LoginData(us[n]), 0, SessionTtl, TRUE)

InitLogout ==
    /\ \E us \in [1..MaxSessions -> Users] :
          /\ mem = LoggedIn(us, MaxSessions)
          /\ issued = [sid \in 1..MaxSessions |->
                          [username |-> us[sid], data |-> LoginData(us[sid]),
                           at |-> 0, removed |-> FALSE]]
    /\ nextSid = MaxSessions + 1
    /\ mdb = {}
    /\ lastExpireAt = NeverExpired
    /\ tickets = GetTicket(EmptyCache, [SAMLRequest |-> "reqA"], "HTTP-Redirect",
                           0, FALSE).cache
    /\ verifySigs = FALSE
    /\ fails = NoFails
    /\ clock = 0
    /\ ret = [op |-> "init"]
    /\ cache = EmptyCache
    /\ ttl = MaxTtl
    /\ hist = NoHist

\* the removals of a logout, noted in the history
IssuedAfter(m) ==
    [sid \in DOMAIN issued |->
        [issued[sid] EXCEPT !.removed = @ \/ sid \notin DOMAIN m.data]]

\* SLO.redirect, SLO.post and SLO.soap: perform_logout(info, binding) for a
\* request with the cookies kaka
Logout(info, binding, kaka, picked, known) ==
    LET req_info == IF "SAMLRequest" \in DOMAIN info
                    THEN ParseLogoutRequest(info.SAMLRequest) ELSE None
        failed(kind) == /\ ret' = [op |-> "logout", err |-> kind, before |-> mem]
                        /\ UNCHANGED <<cacheVars, sessVars, loginVars, clock>>
    IN
    IF DOMAIN info = {} THEN failed("BadRequest")
    ELSE IF "SAMLRequest" \notin DOMAIN info THEN failed("KeyError")
    ELSE IF req_info = None THEN failed("BadRequest")
    ELSE
    LET _name_id == req_info.name_id
        _session_id == ReadCookies(kaka)
        _username == IF _session_id # NoSid THEN NoUser ELSE FindLocalId(_name_id)
    IN
    \E session_ids \in Orders(ResolveSessionIds(mem, _session_id, _username)) :
        LET r == IF session_ids # <<>>
                 THEN [err |-> ""] @@ LogoutSessionIds(mem, session_ids)
                 ELSE [cache |-> mem] @@ LogoutNameId(_name_id, known)
        IN
        IF r.err # ""
        THEN /\ ret' = [op |-> "logout", err |-> r.err, before |-> mem,
                        sid |-> _session_id,
                        name_id |-> _name_id,
                        session_ids |-> session_ids]
             /\ UNCHANGED <<cacheVars, sessVars, loginVars, clock>>
        ELSE LET response == LogoutResponse([binding |-> binding] @@ req_info,
                                            r.status, picked, kaka)
             IN
             /\ mem' = r.cache
             /\ issued' = IssuedAfter(r.cache)
             /\ ret' = [op |-> "logout", err |-> "",
                        kaka |-> kaka,
                        sid |-> _session_id,
                        name_id |-> _name_id,
                        username |-> _username,
                        session_ids |-> session_ids,
                        status |-> r.status,
                        before |-> mem,
                        issued |-> issued,
                        response |-> response]
             /\ UNCHANGED <<cacheVars, loginVars, mdb, lastExpireAt, nextSid, clock>>

\* _logout_session_ids called with ids resolved earlier, some of them removed
\* since by another logout
LogoutSessionIdsCall(session_ids) ==
    LET r == LogoutSessionIds(mem, session_ids)
    IN
    /\ mem' = r.cache
    /\ issued' = IssuedAfter(r.cache)
    /\ ret' = [op |-> "_logout_session_ids",
               session_ids |-> session_ids,
               status |-> r.status,
               before |-> mem]
    /\ UNCHANGED <<cacheVars, loginVars, mdb, lastExpireAt, nextSid, clock>>

LogoutInfos ==
    {<<>>, [RelayState |-> "rs"]}
    \cup {[SAMLRequest |-> r] : r \in LogoutRequests}

\* the requests: pick_binding is not asked for a SOAP request, the session
\* database only without an idpauthn cookie, and a request that fails before
\* its cookies are read comes without cookies
LogoutCalls ==
    {c \in [info : LogoutInfos, binding : SloBindings, kaka : CookieJars,
            picked : Bindings, known : BOOLEAN] :
        /\ c.binding = BindingSoap => c.picked = "HTTP-Redirect"
        /\ "idpauthn" \in DOMAIN c.kaka => c.known
        /\ ("SAMLRequest" \notin DOMAIN c.info \/ c.info = [SAMLRequest |-> "junk"])
           => (c.kaka = NoCookies /\ c.known /\ c.picked = "HTTP-Redirect")}

\* lists of distinct session ids, one of them never handed out
SessionIdLists ==
    UNION {Orders(S) : S \in (SUBSET (1..(MaxSessions + 1))) \ {{}}}

NextLogout ==
    \/ \E c \in LogoutCalls : Logout(c.info, c.binding, c.kaka, c.picked, c.known)
    \/ \E session_ids \in SessionIdLists : LogoutSessionIdsCall(session_ids)

SpecLogout == InitLogout /\ [][NextLogout]_vars

(***************************************************************************)
(* Claims on SpecLogout                                                    *)
(***************************************************************************)
\* _logout_session_ids has run on a non-empty list, called by perform_logout
\* or directly
Terminated ==
    \/ ret.op = "_logout_session_ids"
    \/ ret.op = "logout" /\ ret.err = "" /\ ret.session_ids # <<>>

\* The ids of the list that were found in the store and removed from it
FoundAndRemoved ==
    {sid \in {ret.session_ids[i] : i \in 1..Len(ret.session_ids)} :
        sid \in DOMAIN ret.before.data /\ sid \notin DOMAIN mem.data}

\* C16: for a non-empty list of n resolved sessions of which k are found and
\* removed, _logout_session_ids returns Success when k = n, Responder when
\* k = 0 and PartialLogout when 0 < k < n, whatever the order of the list.
C16_StatusByCount ==
    Terminated =>
        LET n == Len(ret.session_ids)
            k == Cardinality(FoundAndRemoved)
        IN  /\ ret.status = (IF k = n THEN StatusSuccess
                             ELSE IF k = 0 THEN StatusResponder
                             ELSE StatusPartialLogout)
            /\ \A q \in Orders({ret.session_ids[i] : i \in 1..n}) :
                  LogoutSessionIds(ret.before, q).status = ret.status

\* C16 witness: of three sessions two were removed and one was not found
C16_Witness ==
    /\ Terminated
    /\ Len(ret.session_ids) = 3
    /\ Cardinality(FoundAndRemoved) = 2
    /\ ret.status = StatusPartialLogout

\* A logout request that bore an idpauthn cookie and got as far as
\* terminating sessions
CookieLogout == ret.op = "logout" /\ ret.err = "" /\ ret.sid # NoSid

\* C17: a logout with a session cookie removes only the cookie's session:
\* every other session of the store, the same user's included, is still there
\* with the same payload after perform_logout.
C17_OnlyCookieSession ==
    CookieLogout =>
        /\ ret.session_ids = <<ret.sid>>
        /\ ret.sid \notin DOMAIN mem.data
        /\ \A sid \in (DOMAIN ret.before.data) \ {ret.sid} :
              /\ sid \in DOMAIN mem.data
              /\ mem.data[sid] = ret.before.data[sid]
              /\ MemGetSession(mem, sid) = issued[sid].data

\* C17 witness: the cookie's session was removed and another session of the
\* same user is still in the store
C17_Witness ==
    /\ CookieLogout
    /\ ret.sid \in DOMAIN ret.before.data
    /\ ret.status = StatusSuccess
    /\ \E sid \in DOMAIN mem.data :
          issued[sid].username = issued[ret.sid].username

\* A logout request without idpauthn cookie whose NameID resolved to a user
\* and that got as far as terminating sessions
NameLogout ==
    /\ ret.op = "logout" /\ ret.err = ""
    /\ ret.sid = NoSid
    /\ ret.username # NoUser

\* The sessions added for a user and not removed when the request arrived
ActiveBefore(username) ==
    {sid \in DOMAIN ret.issued :
        ret.issued[sid].username = username /\ ~ret.issued[sid].removed}

\* C18: a logout without cookie targets all the sessions that were added for
\* the user resolved from the NameID and are not yet removed, and after a
\* logout with status Success no session of that user remains.
C18_AllSessionsOfUser ==
    NameLogout =>
        /\ {ret.session_ids[i] : i \in 1..Len(ret.session_ids)}
              = ActiveBefore(ret.username)
        /\ ret.status = StatusSuccess =>
              /\ \A sid \in DOMAIN mem.data : mem.data[sid].username # ret.username
              /\ \A sid \in DOMAIN issued :
                    issued[sid].username = ret.username => issued[sid].removed

\* C18 witness: both sessions of the user were targeted and removed
C18_Witness ==
    /\ NameLogout
    /\ Len(ret.session_ids) = 2
    /\ ret.status = StatusSuccess
    /\ ActiveBefore(ret.username) \cap DOMAIN mem.data = {}

\* A logout request that parsed: perform_logout resolved its sessions and
\* went on to terminate them
Resolved == ret.op = "logout" /\ "session_ids" \in DOMAIN ret

\* C19: perform_logout yields UnknownPrincipal exactly when no session was
\* resolved and the request has no name identifier, and it removes no session
\* then.
C19_UnknownPrincipalIff ==
    Resolved =>
        /\ (ret.err = "" /\ ret.status = StatusUnknownPrincipal)
              <=> (ret.session_ids = <<>> /\ ret.name_id = NoNameId)
        /\ (ret.session_ids = <<>> /\ ret.name_id = NoNameId) => mem = ret.before

\* C19 witness: a request without cookie and without NameID got
\* UnknownPrincipal while the store holds sessions, all of them kept
C19_Witness ==
    /\ Resolved
    /\ ret.err = ""
    /\ ret.status = StatusUnknownPrincipal
    /\ ret.sid = NoSid
    /\ mem = ret.before
    /\ DOMAIN mem.data # {}

\* A logout that produced a response with a status code
Responded ==
    /\ ret.op = "logout" /\ ret.err = ""
    /\ ret.response.outcome = "Response"
    /\ ret.response.status \in StatusCodes

\* C20: every logout that produces a status-coded response also clears the
\* idpauthn cookie on the client: the response carries the header that
\* expires it.
C20_CookieCleared ==
    Responded => ExpiredCookie("idpauthn") \in ret.response.headers

\* C37: a logout whose cookie names a session that is not in the store gets
\* the Responder status and removes nothing, and one whose cookie names a
\* stored session gets Success and removes it; so the same cookie-bound
\* logout made twice gets Success and then Responder.
C37_MissingSessionIsResponder ==
    CookieLogout =>
        IF ret.sid \in DOMAIN ret.before.data
        THEN ret.status = StatusSuccess /\ ret.sid \notin DOMAIN mem.data
        ELSE ret.status = StatusResponder /\ mem = ret.before

\* C37 witness: the cookie's session was handed out at a login and removed by
\* an earlier logout, and this logout got Responder
C37_Witness ==
    /\ CookieLogout
    /\ ret.sid \in DOMAIN ret.issued
    /\ ret.issued[ret.sid].removed
    /\ ret.status = StatusResponder
    /\ mem = ret.before

(***************************************************************************)
(* SpecSignOut: logouts, later authentication requests that bear a session *)
(* cookie, and a later login, against the store of SpecLogout              *)
(***************************************************************************)
\* the logout requests: over HTTP-Redirect with an idpauthn cookie, and over
\* SOAP with the NameID of a user
SignOutCalls ==
    {c \in LogoutCalls :
        /\ c.info \in {[SAMLRequest |-> "lo1"]}
        /\ c.picked = "HTTP-Redirect" /\ c.known
        /\ c.binding \in {"HTTP-Redirect", BindingSoap}
        /\ c.binding = BindingSoap <=> c.kaka = NoCookies}

\* the authentication requests: a new request or the key of a ticket
SignOutInfos == {[SAMLRequest |-> "reqA"], [key |-> Sha1("reqA")]}

NextSignOut ==
    \/ \E c \in SignOutCalls : Logout(c.info, c.binding, c.kaka, c.picked, c.known)
    \/ \E sref \in 1..(MaxSessions + 1), info \in SignOutInfos :
          SsoRequest(sref, info, "HTTP-Redirect", TRUE)
    \/ Verify(VerifyQuery([key |-> Sha1("reqA")]), "u1", "")
    \/ TickLogin

SpecSignOut == InitLogout /\ [][NextSignOut]_vars

\* An authentication request that bore the cookie of a session a logout has
\* removed from the store, and did not fail before it was routed
AfterLogout ==
    /\ ret.op = "sso" /\ ret.err = ""
    /\ ret.sref \in DOMAIN issued
    /\ issued[ret.sref].removed

\* C35: after a logout has removed session S from the store, no later
\* authentication request that bears S's cookie takes the fast path: unless
\* it fails, it finds no session and is routed to the login prompt, whatever
\* requests were made in between.
C35_NoFastPathAfterLogout ==
    AfterLogout => (ret.session = None /\ ret.route = "not_authn")

\* C35 witness: such a request was routed to the login prompt while a session
\* of a login made after the logout is in the store
C35_Witness ==
    /\ AfterLogout
    /\ ret.route = "not_authn"
    /\ \E sid \in DOMAIN mem.data : sid \notin DOMAIN issued

(***************************************************************************)
(* Claims on successful submissions and on the keys of the store           *)
(* (SpecForms)                                                             *)
(***************************************************************************)
\* mischttp.geturl(config, query = False) in _not_authn: the entry point that
\* renders the login form of a ticket is the endpoint of the ticket's binding
EntryPoint(binding) ==
    IF binding = "HTTP-Redirect" THEN "/sso/redirect" ELSE "/sso/post"

\* do_verify verified the credentials and redirected
Verified == ret.op = "verify" /\ ret.outcome = "Redirect" /\ "sid" \in DOMAIN ret

\* C32: on successful credential verification the redirect target is the
\* IdP's own entry point that rendered the login form for the ticket, whatever
\* the submitted form carries.
C32_RedirectToEntryPoint ==
    Verified => ret.location[1] = EntryPoint(ret.ticket.binding)

\* C33: a successful do_verify leaves the login-state store unchanged, and the
\* ticket is still stored under its key, as it was, for the follow-up request.
C33_VerifyKeepsStore ==
    Verified =>
        /\ ~ret.stored
        /\ CacheGet(tickets, ret.info.key) = ret.ticket

\* C34: every ticket of the login-state store is stored under the content hash
\* of its own raw SAMLRequest.
C34_StoredUnderRequestHash ==
    \A k \in DOMAIN tickets.data :
        k = Escape(Sha1(tickets.data[k].SAMLRequest))

(***************************************************************************)
(* Claims on the follow-up request of a login (SpecSso)                    *)
(***************************************************************************)
\* The follow-up request of a login: it carries the key of a ticket and the
\* cookie of a valid session that do_verify made for that ticket's request
FollowUp ==
    /\ Routed
    /\ DOMAIN ret.info = {"key"}
    /\ ret.session # None
    /\ ret.session.user_authn_request_id = ret.ticket.req_info.id

MaxEppnLen == 2

\* Strings that are taken apart or put together are sequences of characters
EppnChars == {"a", "@"}
EppnValues == UNION {[1..n -> EppnChars] : n \in 0..MaxEppnLen}

\* config.default_eppn_scope: not configured (None or ''), or a scope
NoScope == <<>>
Scopes == {NoScope, <<"e">>}

\* user.identity: the attributes of a user, with and without an
\* eduPersonPrincipalName
Identities ==
    {[mail |-> <<"m">>]}
    \cup {[eduPersonPrincipalName |-> v, mail |-> <<"m">>] : v \in EppnValues}

\* '@' in eppn
HasAt(eppn) == \E i \in 1..Len(eppn) : eppn[i] = "@"

\* (mutant) the scope is appended whether or not the value has one
MakeScopedEppnAlways(attributes, scope) ==
    IF "eduPersonPrincipalName" \notin DOMAIN attributes THEN attributes
    ELSE [attributes EXCEPT !.eduPersonPrincipalName = @ \o <<"@">> \o scope]

\* SSO._make_scoped_eppn
MakeScopedEppn(attributes, scope) ==
    IF "eduPersonPrincipalName" \notin DOMAIN attributes THEN attributes
    ELSE LET eppn == attributes.eduPersonPrincipalName
         IN  IF eppn = <<>> THEN attributes
             ELSE IF ~HasAt(eppn) /\ scope # NoScope
                  THEN [attributes EXCEPT
                           !.eduPersonPrincipalName = eppn \o <<"@">> \o scope]
                  ELSE attributes

\* The AuthnRequests of the tickets that reach response generation: from sp1,
\* from an issuer the metadata does not know, and from an issuer that has no
\* assertion consumer service with a binding the IdP supports
ResponseRequests ==
    {[id |-> "idA", issuer |-> "sp1", force_authn |-> FALSE],
     [id |-> "idB", issuer |-> "sp1", force_authn |-> TRUE],
     [id |-> "idX", issuer |-> "spX", force_authn |-> FALSE],
     [id |-> "idN", issuer |-> "spN", force_authn |-> FALSE]}
ResponseTickets ==
    {SSOLoginData(Sha1(r.id), r, [SAMLRequest |-> r.id], "HTTP-Redirect") :
        r \in ResponseRequests}

\* IDP.pick_binding("assertion_consumer_service", entity_id): the outgoing
\* binding and destination, or the exception pysaml2 raises
PickBinding(entity_id) ==
    CASE entity_id = "sp1" ->
            [err |-> "", binding_out |-> "HTTP-POST", destination |-> "acs1"]
      [] entity_id = "spN" -> [err |-> "UnsupportedBinding"]
      [] OTHER -> [err |-> "UnknownPrincipal"]

\* IDP.response_args(message), for an issuer pick_binding accepted
ResponseArgs(message) ==
    [destination |-> PickBinding(message.issuer).destination,
     sp_entity_id |-> message.issuer,
     binding |-> PickBinding(message.issuer).binding_out,
     in_response_to |-> message.id]

\* (mutant) the exceptions of pick_binding are not turned into BadRequest
ValidateLoginRequestPassesErrors(ticket) ==
    LET v == PickBinding(ticket.req_info.issuer)
    IN  IF v.err # "" THEN [err |-> v.err]
        ELSE [err |-> "", resp_args |-> ResponseArgs(ticket.req_info),
              binding_out |-> v.binding_out, destination |-> v.destination]

\* SSO._validate_login_request with _verify_request
ValidateLoginRequest(ticket) ==
    LET v == PickBinding(ticket.req_info.issuer)
    IN  IF v.err = "UnknownPrincipal" THEN [err |-> "BadRequest"]
        ELSE IF v.err = "UnsupportedBinding" THEN [err |-> "BadRequest"]
        ELSE [err |-> "", resp_args |-> ResponseArgs(ticket.req_info),
              binding_out |-> v.binding_out, destination |-> v.destination]

\* SSOSession.get_authn_context(AUTHN_BROKER): the stored context of the
\* session, None when the broker no longer has the session's method
GetAuthnContext(session) ==
    IF AuthnContextKnown(session.user_authn_ref)
    THEN [class_ref |-> "al1", authn_auth |-> "idp"]
    ELSE None

\* (mutant) a missing stored context is reported as Unauthorized
GetLoginResponseAuthnUnauthorized(ticket, session, permitted) ==
    LET _authn == GetAuthnContext(session)
    IN  IF _authn = None THEN [err |-> "Unauthorized"]
        ELSE IF ~permitted THEN [err |-> "Forbidden"]
        ELSE [err |-> "",
              authn |-> [class_ref |-> _authn.class_ref,
                         authn_auth |-> _authn.authn_auth,
                         authn_instant |-> session.authn_timestamp]]

\* SSO._get_login_response_authn; permitted is what assurance.permitted_authn
\* says of the user and the context to assert
GetLoginResponseAuthn(ticket, session, permitted) ==
    LET _authn == GetAuthnContext(session)
    IN  IF _authn = None THEN [err |-> "ServiceError"]
        ELSE IF ~permitted THEN [err |-> "Forbidden"]
        ELSE [err |-> "",
              authn |-> [class_ref |-> _authn.class_ref,
                         authn_auth |-> _authn.authn_auth,
                         authn_instant |-> session.authn_timestamp]]

\* SSO.perform_login: the error raised, or the assertion made by
\* IDP.create_authn_response and the binding it is sent with
PerformLoginResult(ticket, session, identity, scope, permitted) ==
    LET v == ValidateLoginRequest(ticket)
    IN  IF v.err # "" THEN [err |-> v.err]
        ELSE
        LET a == GetLoginResponseAuthn(ticket, session, permitted)
        IN  IF a.err # "" THEN [err |-> a.err]
            ELSE [err |-> "",
                  assertion |-> [attributes |-> MakeScopedEppn(identity, scope),
                                 userid |-> session.user_id,
                                 authn |-> a.authn,
                                 resp_args |-> v.resp_args],
                  binding_out |-> v.binding_out,
                  destination |-> v.destination,
                  RelayState |-> ticket.RelayState]

\* The sessions a request reaches response generation with: made by do_verify
\* for the request of the ticket, or made earlier for another request and
\* found through the idpauthn cookie; with a method the broker has, or one
\* it had when the session was made
ResponseSessionsOf(ts) ==
    {SSOSession("u1", ref, rid, 0) :
        ref \in {"ref", "old"}, rid \in {t.req_info.id : t \in ts} \cup {"idOld"}}

\* SSO._redirect_or_post with a session: perform_login, or the login page
RespondTo(ticket, session, identity, scope, permitted) ==
    /\ ret' = IF RedirectOrPost(ticket, session) = "perform_login"
              THEN [op |-> "perform_login", ticket |-> ticket,
                    session |-> session, identity |-> identity,
                    scope |-> scope, permitted |-> permitted,
                    res |-> PerformLoginResult(ticket, session, identity,
                                               scope, permitted)]
              ELSE [op |-> "not_authn", ticket |-> ticket, session |-> session]
    /\ UNCHANGED <<cacheVars, sessVars, loginVars, clock>>

\* _make_scoped_eppn called on the attributes of a user
ScopeEppn(attributes, scope) ==
    /\ ret' = [op |-> "make_scoped_eppn", attributes |-> attributes,
               scope |-> scope,
               out |-> MakeScopedEppn(attributes, scope),
               twice |-> MakeScopedEppn(MakeScopedEppn(attributes, scope), scope)]
    /\ UNCHANGED <<cacheVars, sessVars, loginVars, clock>>

NextResponse ==
    \/ \E ticket \in ResponseTickets, session \in ResponseSessionsOf(ResponseTickets),
          identity \in Identities, scope \in Scopes, permitted \in BOOLEAN :
          RespondTo(ticket, session, identity, scope, permitted)
    \/ \E attributes \in Identities, scope \in Scopes :
          ScopeEppn(attributes, scope)

SpecResponse == InitSso /\ [][NextResponse]_vars

(***************************************************************************)
(* Claims on SpecResponse                                                  *)
(***************************************************************************)
Scoped == ret.op = "make_scoped_eppn"
EppnPresent == "eduPersonPrincipalName" \in DOMAIN ret.attributes
WithScope ==
    [ret.attributes EXCEPT !.eduPersonPrincipalName = @ \o <<"@">> \o ret.scope]

\* C26 as stated: _make_scoped_eppn changes eduPersonPrincipalName to value +
\* '@' + scope exactly when the attribute is present, contains no '@' and a
\* default scope is configured; otherwise the attributes are unchanged; a
\* second application changes nothing.
C26_ScopedWhenPresent ==
    Scoped =>
        LET change == /\ EppnPresent
                      /\ ~HasAt(ret.attributes.eduPersonPrincipalName)
                      /\ ret.scope # NoScope
        IN  /\ change => ret.out = WithScope
            /\ ~change => ret.out = ret.attributes
            /\ ret.twice = ret.out

\* C26 amended: the same, exactly when the attribute is present with a
\* non-empty value, contains no '@' and a default scope is configured.
C26_ScopedWhenNonEmpty ==
    Scoped =>
        LET change == /\ EppnPresent
                      /\ ret.attributes.eduPersonPrincipalName # <<>>
                      /\ ~HasAt(ret.attributes.eduPersonPrincipalName)
                      /\ ret.scope # NoScope
        IN  /\ change => ret.out = WithScope
            /\ ~change => ret.out = ret.attributes
            /\ ret.twice = ret.out

\* C26 witness: an unscoped value was given the scope
C26_Witness ==
    /\ Scoped
    /\ ret.out # ret.attributes
    /\ ret.out.eduPersonPrincipalName = <<"a", "@", "e">>

Generated == ret.op = "perform_login"
AfterVerification == ret.session.user_authn_request_id = ret.ticket.req_info.id

\* C27: response generation for a ticket whose issuer the metadata does not
\* know, or that has no supported response binding, fails with BadRequest and
\* produces no assertion, for a session found by cookie as well as for the
\* session that credential verification has just made.
C27_UnknownIssuerIsBadRequest ==
    (Generated /\ PickBinding(ret.ticket.req_info.issuer).err # "") =>
        /\ ret.res.err = "BadRequest"
        /\ "assertion" \notin DOMAIN ret.res

\* C27 witness: after credential verification, a ticket of an issuer without
\* a supported binding
C27_Witness ==
    /\ Generated
    /\ AfterVerification
    /\ PickBinding(ret.ticket.req_info.issuer).err = "UnsupportedBinding"
    /\ ret.res.err = "BadRequest"

\* The session's method is no longer configured and the request is one that
\* can be answered
StaleMethod ==
    /\ Generated
    /\ PickBinding(ret.ticket.req_info.issuer).err = ""
    /\ ~AuthnContextKnown(ret.session.user_authn_ref)

\* C28 as stated: when the session's stored authentication context refers to
\* a method no longer configured in the broker, response generation fails
\* with Unauthorized.
C28_StaleMethodIsUnauthorized ==
    StaleMethod => ret.res.err = "Unauthorized"

\* C28 amended: it fails with ServiceError, and makes no assertion.
C28_StaleMethodIsServiceError ==
    StaleMethod =>
        /\ ret.res.err = "ServiceError"
        /\ "assertion" \notin DOMAIN ret.res

\* C28 witness: such a session, on the fast path
C28_Witness ==
    /\ StaleMethod
    /\ ~AfterVerification
    /\ ret.res.err # ""

(***************************************************************************)
(* SpecWorkers: worker threads calling add concurrently on one             *)
(* ExpiringCache that was built with a threading.Lock, statement by        *)
(* statement.  hist holds the lock and, per worker, the statement it is at *)
(* and its local variables.                                                *)
(***************************************************************************)
\* the worker threads of the server
NumWorkers == 2
\* calls of add that the workers make in all
MaxAdds == 2
\* the clock of the workers stops here
MaxWorkTime == 2
Workers == 1..NumWorkers

\* threading.Lock: 0 when free, else the worker that holds it
LockFreeNow == 0

\* (mutant) acquire succeeds whoever holds the lock
LockAcquireAlways(lock, w) == [ok |-> TRUE, lock |-> w]

\* lock.acquire(False): taken if free, else False at once
LockAcquire(lock, w) ==
    IF lock = LockFreeNow THEN [ok |-> TRUE, lock |-> w]
    ELSE [ok |-> FALSE, lock |-> lock]

\* lock.release()
LockRelease(lock) == LockFreeNow

\* self._data[key] = info
SetData(c, key, info) ==
    [c EXCEPT !.data = [k \in (DOMAIN c.data) \cup {key} |->
                           IF k = key THEN info ELSE c.data[k]]]

\* (mutant) the age record is not appended
AgesAppendDrops(c, now, key) == c

\* self._ages.append((_now, key))
AgesAppend(c, now, key) ==
    [c EXCEPT !.ages = Append(@, [ts |-> now, key |-> key])]

\* self._ages.popleft() of a non-empty queue, and self._ages.appendleft(e)
AgesPopLeft(c) == [c EXCEPT !.ages = Tail(@)]
AgesAppendLeft(c, e) == [c EXCEPT !.ages = <<e>> \o @]

\* a worker outside add: no locals
NoLocals == [key |-> "", now |-> 0, popped |-> [ts |-> 0, key |-> ""]]

InitWorkers ==
    /\ cache = EmptyCache
    /\ ttl = MaxTtl
    /\ hist = [adds |-> 0, lock |-> LockFreeNow,
               pc |-> [w \in Workers |-> "idle"],
               loc |-> [w \in Workers |-> NoLocals]]
    /\ clock = 0
    /\ ret = [op |-> "init"]
    /\ SessVarsInit
    /\ LoginVarsInit

\* add, first statements: self._data[key] = info; _now = int(time.time())
AddBegin(w, key) ==
    /\ hist.pc[w] = "idle"
    /\ hist.adds < MaxAdds
    /\ cache' = SetData(cache, key, [v |-> "a"])
    /\ hist' = [hist EXCEPT !.adds = @ + 1, !.pc[w] = "append",
                            !.loc[w] = [NoLocals EXCEPT !.key = key, !.now = clock]]
    /\ ret' = [op |-> "step"]
    /\ UNCHANGED <<ttl, clock, sessVars, loginVars>>

\* add: self._ages.append((_now, key)), then the call of purge_expired
AddAppend(w) ==
    /\ hist.pc[w] = "append"
    /\ cache' = AgesAppend(cache, hist.loc[w].now, hist.loc[w].key)
    /\ hist' = [hist EXCEPT !.pc[w] = "acquire"]
    /\ ret' = [op |-> "step"]
    /\ UNCHANGED <<ttl, clock, sessVars, loginVars>>

\* purge_expired: if not self.lock.acquire(False): return None
PurgeAcquire(w) ==
    /\ hist.pc[w] = "acquire"
    /\ LET a == LockAcquire(hist.lock, w)
       IN  /\ hist' = [hist EXCEPT !.lock = a.lock,
                                   !.pc[w] = IF a.ok THEN "pop" ELSE "idle",
                                   !.loc[w] = IF a.ok THEN @ ELSE NoLocals]
           /\ ret' = IF a.ok THEN [op |-> "step"] ELSE [op |-> "refused", w |-> w]
    /\ UNCHANGED <<cache, ttl, clock, sessVars, loginVars>>

\* purge_expired: (_exp_ts, _exp_key) = self._ages.popleft(); IndexError ends
\* the loop
PurgePop(w) ==
    /\ hist.pc[w] = "pop"
    /\ IF cache.ages = <<>>
       THEN /\ hist' = [hist EXCEPT !.pc[w] = "release"]
            /\ ret' = [op |-> "step"]
            /\ UNCHANGED cache
       ELSE /\ cache' = AgesPopLeft(cache)
            /\ hist' = [hist EXCEPT !.pc[w] = "check",
                                    !.loc[w].popped = Head(cache.ages)]
            /\ ret' = [op |-> "step"]
    /\ UNCHANGED <<ttl, clock, sessVars, loginVars>>

\* purge_expired: a record newer than the timestamp is put back and ends the
\* loop, an older one has its key deleted
PurgeCheck(w) ==
    /\ hist.pc[w] = "check"
    /\ LET e == hist.loc[w].popped
           timestamp == hist.loc[w].now - ttl
       IN  IF e.ts > timestamp
           THEN /\ cache' = AgesAppendLeft(cache, e)
                /\ hist' = [hist EXCEPT !.pc[w] = "release"]
                /\ ret' = [op |-> "step"]
           ELSE /\ cache' = CacheDelete(cache, e.key)
                /\ hist' = [hist EXCEPT !.pc[w] = "pop"]
                /\ ret' = [op |-> "purged", key |-> e.key]
    /\ UNCHANGED <<ttl, clock, sessVars, loginVars>>

\* purge_expired: finally: self.lock.release(), and add returns
PurgeRelease(w) ==
    /\ hist.pc[w] = "release"
    /\ hist' = [hist EXCEPT !.lock = LockRelease(@), !.pc[w] = "idle",
                            !.loc[w] = NoLocals]
    /\ ret' = [op |-> "release"]
    /\ UNCHANGED <<cache, ttl, clock, sessVars, loginVars>>

\* time passes
TickWorkers ==
    /\ clock < MaxWorkTime
    /\ clock' = clock + 1
    /\ ret' = [op |-> "tick"]
    /\ UNCHANGED <<cacheVars, sessVars, loginVars>>

NextWorkers ==
    \/ \E w \in Workers, key \in Keys : AddBegin(w, key)
    \/ \E w \in Workers : AddAppend(w)
    \/ \E w \in Workers : PurgeAcquire(w)
    \/ \E w \in Workers : PurgePop(w)
    \/ \E w \in Workers : PurgeCheck(w)
    \/ \E w \in Workers : PurgeRelease(w)
    \/ TickWorkers

SpecWorkers == InitWorkers /\ [][NextWorkers]_vars

(***************************************************************************)
(* Claims on SpecWorkers                                                   *)
(***************************************************************************)
\* C31: every mutation of the age queue is made by a worker that holds the
\* cache's lock.
C31_AgesMutatedUnderLock ==
    [][cache'.ages # cache.ages =>
          \E w \in Workers : hist'.pc[w] # hist.pc[w] /\ hist.lock = w]_vars

\* The workers inside the purge loop, and no call in progress
InPurge == {w \in Workers : hist.pc[w] \in {"pop", "check", "release"}}
Quiescent == \A w \in Workers : hist.pc[w] = "idle"

\* C38: at most one worker is inside the purge loop at any time; a worker
\* whose purge_expired has returned does not hold the lock, so the lock is
\* free when all calls have returned.
C38_PurgeMutex ==
    /\ Cardinality(InPurge) <= 1
    /\ \A w \in Workers : hist.lock = w => w \in InPurge
    /\ Quiescent => hist.lock = LockFreeNow

\* C38 witness: a worker was refused the lock while another is in the loop
C38_Witness ==
    /\ ret.op = "refused"
    /\ InPurge # {}
    /\ ret.w \notin InPurge

\* C40: while no add or purge is in progress every key of the data map has a
\* record in the age queue, and the purge that pops a record deletes its key.
C40_StoredKeyHasAgeRecord ==
    /\ Quiescent =>
          \A k \in DOMAIN cache.data :
             \E i \in 1..Len(cache.ages) : cache.ages[i].key = k
    /\ ret.op = "purged" => ret.key \notin DOMAIN cache.data

\* C40 witness: a quiescent cache that still holds a key after a purge has
\* popped the record of another add
C40_Witness ==
    /\ Quiescent
    /\ ret.op = "release"
    /\ DOMAIN cache.data # {}
    /\ Len(cache.ages) < hist.adds

(***************************************************************************)
(* SpecSubmit: the worker threads serve failed credential submissions for  *)
(* one ticket, do_verify statement by statement.  The ticket cache keeps   *)
(* the ticket object itself (ExpiringCacheMem), so every worker that looks *)
(* the key up holds a reference to the one stored object.  hist holds, per *)
(* worker, the statement it is at and the FailCount it read.               *)
(***************************************************************************)
\* failed submissions the workers serve in all
MaxPosts == 3

\* the authentication request of the ticket and the form posted for it
SubmitRequest == "reqA"
SubmitQuery == VerifyQuery([key |-> Sha1(SubmitRequest)])

InitSubmit ==
    /\ SessVarsInit
    /\ LoginVarsInit
    /\ clock = 0
    /\ ret = [op |-> "init"]
    /\ cache = EmptyCache
    /\ ttl = MaxTtl
    /\ hist = [posts |-> 0, done |-> 0,
               pc |-> [w \in Workers |-> "idle"],
               seen |-> [w \in Workers |-> 0]]

\* _ticket = idp_app.IDP.ticket.get_ticket(query), and the credential check
\* that finds no user
SubmitLookup(w) ==
    LET t == GetTicket(tickets, SubmitQuery, NoBinding, clock, verifySigs)
    IN
    /\ hist.pc[w] = "idle"
    /\ hist.posts < MaxPosts
    /\ tickets' = t.cache
    /\ IF t.err # ""
       THEN /\ ret' = [op |-> "verify", w |-> w, outcome |-> t.err]
            /\ hist' = [hist EXCEPT !.posts = @ + 1]
       ELSE /\ ret' = [op |-> "lookup", w |-> w]
            /\ hist' = [hist EXCEPT !.posts = @ + 1, !.pc[w] = "read"]
    /\ UNCHANGED <<cache, ttl, sessVars, verifySigs, fails, clock>>

\* _ticket.FailCount += 1, first half: the property getter reads the count
\* of the shared object
SubmitRead(w) ==
    /\ hist.pc[w] = "read"
    /\ hist' = [hist EXCEPT !.pc[w] = "write",
                            !.seen[w] = CacheGet(tickets, SubmitQuery.key).FailCount]
    /\ ret' = [op |-> "read", w |-> w]
    /\ UNCHANGED <<cache, ttl, sessVars, loginVars, clock>>

\* _ticket.FailCount += 1, second half: the property setter writes the count
\* that was read, plus one, to the shared object
SubmitWrite(w) ==
    /\ hist.pc[w] = "write"
    /\ tickets' = [tickets EXCEPT
                      !.data[SubmitQuery.key].FailCount = hist.seen[w] + 1]
    /\ hist' = [hist EXCEPT !.pc[w] = "store"]
    /\ ret' = [op |-> "write", w |-> w]
    /\ UNCHANGED <<cache, ttl, sessVars, verifySigs, fails, clock>>

\* idp_app.IDP.ticket.store_ticket(_ticket), then Unauthorized
SubmitStore(w) ==
    /\ hist.pc[w] = "store"
    /\ tickets' = StoreTicket(tickets, CacheGet(tickets, SubmitQuery.key), clock)
    /\ hist' = [hist EXCEPT !.pc[w] = "idle", !.done = @ + 1]
    /\ ret' = [op |-> "verify", w |-> w, outcome |-> "Unauthorized"]
    /\ UNCHANGED <<cache, ttl, sessVars, verifySigs, fails, clock>>

NextSubmit ==
    \/ SsoRequest(NoSid, [SAMLRequest |-> SubmitRequest], "HTTP-Redirect", TRUE)
    \/ \E w \in Workers : SubmitLookup(w)
    \/ \E w \in Workers : SubmitRead(w)
    \/ \E w \in Workers : SubmitWrite(w)
    \/ \E w \in Workers : SubmitStore(w)

SpecSubmit == InitSubmit /\ [][NextSubmit]_vars

\* C39: failed submissions against one ticket key that the workers process
\* concurrently lose no update: once every submission has been served, the
\* stored FailCount is the number of failed submissions, in every
\* interleaving of their lookup, increment and store steps.
C39_NoUpdateLost ==
    (\A w \in Workers : hist.pc[w] = "idle")
        => \/ CacheGet(tickets, SubmitQuery.key) = None
           \/ CacheGet(tickets, SubmitQuery.key).FailCount = hist.done

====
